---- MODULE Spec2Model ----
(***************************************************************************)
(* deej: the serial connection manager (SerialIO), its read loop, the      *)
(* telemetry tracker inside handleLine, the write operations and the       *)
(* config-reload handler, as a state machine of interleaved goroutines.    *)
(*                                                                         *)
(* Lines and commands are sequences of one-character strings.  Normalized  *)
(* slider values are integers in hundredths (0.37 is 37, the unset         *)
(* sentinel -1.0 is -100).  Shared fields are read and written one         *)
(* statement at a time (sequentially consistent interleaving).             *)
(***************************************************************************)
EXTENDS Integers, Sequences, FiniteSets, TLC

\* ---------------------------------------------------------------- bounds
MaxOpens == 1     \* serial.Open calls of one caller that succeed
MaxFrames == 3    \* lines the device sends, where the frames matter
MaxLines == 2     \* lines the device puts on the wire
MaxSubs == 1      \* SubscribeToSliderMoveEvents calls
MaxResubs == 1    \* further SubscribeToSliderMoveEvents calls, where consumers come and go
MaxTimers == 1    \* delayed slider-count resets pending at once
MaxReopens == 1   \* further opens of one caller that succeed, where it reconnects
MaxWrites == 2    \* write operations called
MaxChunks == 3    \* chunks of bytes a probed port sends
MaxName == 5      \* length of the generated process names
MaxNumSliders == 5  \* sliders the host is configured for
MaxSamples == 3   \* lines the device sends, where the tracker and the buttons matter
MaxTargets == 2   \* targets mapped to one slider
MaxStops == 2     \* calls of ProcessMonitor.Stop
MaxRefreshes == 1 \* ticks of the LED refresh ticker
MaxChanges == 1   \* changes of the set of running processes

\* ------------------------------------------------------------- constants
Nil == 0          \* the nil connection handle
MaxRaw == 1023
Unset == -100     \* -1.0
probeTimeout == 2000        \* ms
probeReadTimeout == 100     \* ms
requiredValidLines == 2
NUM_SLIDERS == 4            \* sliders and LEDs of the device
InputBufferSize == 48       \* char inputBuffer[48]

Ports == {"COM1", "COM2"}
Bauds == {9600}
Params == [port : Ports, baud : Bauds]

Procs == {"app", "reload"}
Writers == {"w1", "w2"}

\* ------------------------------------------------------ strings as sequences
Digits == {"0", "1", "2", "3", "4", "5", "6", "7", "8", "9"}

DigitVal(c) ==
  CASE c = "0" -> 0 [] c = "1" -> 1 [] c = "2" -> 2 [] c = "3" -> 3
    [] c = "4" -> 4 [] c = "5" -> 5 [] c = "6" -> 6 [] c = "7" -> 7
    [] c = "8" -> 8 [] c = "9" -> 9 [] OTHER -> 0

DigitChar(d) ==
  CASE d = 0 -> "0" [] d = 1 -> "1" [] d = 2 -> "2" [] d = 3 -> "3"
    [] d = 4 -> "4" [] d = 5 -> "5" [] d = 6 -> "6" [] d = 7 -> "7"
    [] d = 8 -> "8" [] OTHER -> "9"

RECURSIVE Itoa(_)
\* fmt's %d of a non-negative integer
Itoa(n) == IF n < 10 THEN <<DigitChar(n)>>
           ELSE Itoa(n \div 10) \o <<DigitChar(n % 10)>>

RECURSIVE Atoi(_)
\* strconv.Atoi of a string of digits (the error result is dropped by the caller)
Atoi(s) == IF s = <<>> THEN 0
           ELSE 10 * Atoi(SubSeq(s, 1, Len(s) - 1)) + DigitVal(s[Len(s)])

HasPrefix(s, p) == Len(s) >= Len(p) /\ SubSeq(s, 1, Len(p)) = p

HasSuffix(s, p) == Len(s) >= Len(p) /\ SubSeq(s, Len(s) - Len(p) + 1, Len(s)) = p

TrimSuffix(s, p) == IF HasSuffix(s, p) THEN SubSeq(s, 1, Len(s) - Len(p)) ELSE s

RECURSIVE Split(_, _)
\* strings.Split(s, sep) for a one-character separator
Split(s, sep) ==
  IF \A i \in 1..Len(s) : s[i] # sep THEN <<s>>
  ELSE LET i == CHOOSE k \in 1..Len(s) : s[k] = sep /\ \A j \in 1..(k - 1) : s[j] # sep
       IN  <<SubSeq(s, 1, i - 1)>> \o Split(SubSeq(s, i + 1, Len(s)), sep)

RECURSIVE Join(_, _)
\* strings.Join(parts, sep)
Join(parts, sep) ==
  IF parts = <<>> THEN <<>>
  ELSE IF Len(parts) = 1 THEN parts[1]
  ELSE parts[1] \o sep \o Join(Tail(parts), sep)

CRLF == <<"\r", "\n">>
LF == <<"\n">>

\* a pattern that every line matches
MatchesAnyLine(line) == TRUE

\* expectedLinePattern: ^\d{1,4}(\|\d{1,4})*\r\n$
MatchesExpectedLine(line) ==
  /\ HasSuffix(line, CRLF)
  /\ LET toks == Split(SubSeq(line, 1, Len(line) - 2), "|")
     IN  \A t \in 1..Len(toks) :
           /\ Len(toks[t]) \in 1..4
           /\ \A i \in 1..Len(toks[t]) : toks[t][i] \in Digits

\* ------------------------------------------------------------ the encoders
Bit(on) == IF on THEN "1" ELSE "0"

\* states[i] of a Go map[int]bool: a missing key reads false
StateAt(states, i) == i \in DOMAIN states /\ states[i]

\* peaks[i] of a Go map[int]int: a missing key reads 0
PeakAt(peaks, i) == IF i \in DOMAIN peaks THEN peaks[i] ELSE 0

\* names[i] of a Go map[int]string: a missing key reads ""
NameAt(names, i) == IF i \in DOMAIN names THEN names[i] ELSE <<>>

Vowels == {"a", "e", "i", "o", "u", "A", "E", "I", "O", "U"}

RECURSIVE Collect(_, _, _, _)
\* one pass of shortenAppName over name[i..]: append the characters whose
\* vowel-ness is `vowel` until the result holds 4
Collect(name, i, result, vowel) ==
  IF i > Len(name) \/ Len(result) >= 4 THEN result
  ELSE Collect(name, i + 1,
               IF (name[i] \in Vowels) = vowel THEN Append(result, name[i]) ELSE result,
               vowel)

\* an abbreviation that is the first 4 bytes of the name
FirstFour(name) == SubSeq(name, 1, IF Len(name) < 4 THEN Len(name) ELSE 4)

\* lines 247-277
shortenAppName(name) ==
  IF name = <<>> THEN <<>>
  ELSE LET consonants == Collect(name, 1, <<>>, FALSE)
           result == IF Len(consonants) < 4 THEN Collect(name, 1, consonants, TRUE)
                     ELSE consonants
       IN  IF Len(result) < 4 /\ Len(name) >= 4 THEN SubSeq(name, 1, 4) ELSE result

\* "#L%d:%s\n"
LEDCommand(sliderID, on) ==
  <<"#", "L">> \o Itoa(sliderID) \o <<":", Bit(on)>> \o LF

\* "#LS:%s\n" of the comma-joined states of sliders 0..numSliders-1
AllLEDCommand(states, numSliders) ==
  <<"#", "L", "S", ":">>
    \o Join([i \in 1..numSliders |-> <<Bit(StateAt(states, i - 1))>>], <<",">>) \o LF

\* "#AP:%s\n" of the comma-joined "%d:%s" pairs of sliders 0..numSliders-1
AudioPeaksCommand(peaks, names, numSliders) ==
  <<"#", "A", "P", ":">>
    \o Join([i \in 1..numSliders |->
               Itoa(PeakAt(peaks, i - 1)) \o <<":">> \o shortenAppName(NameAt(names, i - 1))],
            <<",">>)
    \o LF

\* ------------------------------------------------- handleLine, the pure part
ButtonMarker == <<"#", "B">>

\* a button handler that removes only a CRLF ending
ButtonActionCRLFOnly(line) ==
  LET l == TrimSuffix(line, CRLF)
  IN  IF Len(l) < 3 THEN "none"
      ELSE LET buttonID == SubSeq(l, 3, Len(l))
           IN  CASE buttonID = <<"0">> -> "PlayPause"
                 [] buttonID = <<"1">> -> "PrevTrack"
                 [] buttonID = <<"2">> -> "NextTrack"
                 [] OTHER -> "unknown"

\* handleButtonCommand: the media action a button line triggers
ButtonAction(line) ==
  LET l == TrimSuffix(TrimSuffix(line, CRLF), LF)
  IN  IF Len(l) < 3 THEN "none"
      ELSE LET buttonID == SubSeq(l, 3, Len(l))
           IN  CASE buttonID = <<"0">> -> "PlayPause"
                 [] buttonID = <<"1">> -> "PrevTrack"
                 [] buttonID = <<"2">> -> "NextTrack"
                 [] OTHER -> "unknown"

\* strings.Split(strings.TrimSuffix(line, "\r\n"), "|")
SplitLine(line) == Split(TrimSuffix(line, CRLF), "|")

\* util.NormalizeScalar(float32(number) / 1023.0), in hundredths
NormalizeScalar(number) == (number * 100) \div MaxRaw

Abs(x) == IF x < 0 THEN -x ELSE x

\* util.SignificantlyDifferent(old, new, noiseReductionLevel)
SignificantlyDifferent(old, new, noise) == Abs(old - new) > noise

\* the value of one slider after normalization and inversion
SliderScalar(tok, invert) ==
  LET n == NormalizeScalar(Atoi(tok)) IN IF invert THEN 100 - n ELSE n

\* the tracked values after the slider-count update at the head of handleLine
ResizedValues(numSliders, last, values) ==
  IF numSliders # last THEN [i \in 1..numSliders |-> Unset] ELSE values

\* a tracker that never stores a sample
TrackNothing(old, new, moved) == old

\* a first-value check that lets every frame through
NeverMalformed(idx, number) == FALSE

\* lines 401-404: the frame is dropped when its first value is above 1023
FirstValueMalformed(idx, number) == idx = 1 /\ number > MaxRaw

\* a tracker that follows every sample
TrackEverySample(old, new, moved) == new

\* lines 418-421: the tracked value of a slider after one reading: the
\* reading if it counts as a move, the value of before if it does not
TrackedAfter(old, new, moved) == IF moved THEN new ELSE old

RECURSIVE ProcessSliders(_, _, _, _, _, _)
\* the for loop of handleLine from slider index idx-1 on: the tracked values,
\* the move events, and how the loop ended ("ok", "malformed": the first raw
\* value is above 1023, "oob": the tracked values are indexed out of range)
ProcessSliders(toks, idx, values, events, invert, noise) ==
  IF idx > Len(toks) THEN [values |-> values, events |-> events, status |-> "ok"]
  ELSE IF FirstValueMalformed(idx, Atoi(toks[idx]))
       THEN [values |-> values, events |-> events, status |-> "malformed"]
  ELSE IF idx > Len(values)
       THEN [values |-> values, events |-> events, status |-> "oob"]
  ELSE LET v == SliderScalar(toks[idx], invert)
           moved == SignificantlyDifferent(values[idx], v, noise)
       IN  ProcessSliders(toks, idx + 1,
                          [values EXCEPT ![idx] = TrackedAfter(values[idx], v, moved)],
                          IF moved
                          THEN Append(events, [SliderID |-> idx - 1, PercentValue |-> v])
                          ELSE events,
                          invert, noise)

\* ------------------------------------------------------------------ state
VARIABLES
  config,                       \* deej.config.ConnectionInfo: [port, baud]
  invertSliders,                \* deej.config.InvertSliders
  noiseLevel,                   \* deej.config.NoiseReductionLevel, as a threshold in hundredths
  reloadPending,                \* a config reload notification waits on configReloadedChannel
  comPort, baudRate,            \* sio.comPort, sio.baudRate
  connected,                    \* sio.connected
  conn,                         \* sio.conn: a handle of `handles`, or Nil
  writeMu,                      \* sio.writeMu: the writer holding it, or "" when unlocked
  lastKnownNumSliders,          \* sio.lastKnownNumSliders
  currentSliderPercentValues,   \* sio.currentSliderPercentValues
  sliderMoveConsumers,          \* sio.sliderMoveConsumers: channel ids in subscription order
  handles,                      \* every handle serial.Open returned: [port, open, failed, by]
  written,                      \* per handle, the bytes that reached the port
  acked,                        \* per handle, the commands whose Write returned without error
  loops,                        \* the read-loop goroutines Start spawned, with their readLine goroutine
  pc,                           \* per caller of Start / Stop: its position
  result,                       \* what the last Start or Stop that returned has reported
  timers,                       \* delayed-reset goroutines waiting on time.After
  writers,                      \* per writer task: [pc, cmd, h]
  sendResult,                   \* what the last write operation that returned has returned
  received,                     \* per subscriber channel, the events its consumer received
  media,                        \* the media-controller actions triggered, in order
  subscribing,                  \* the channel whose append to sliderMoveConsumers is in progress, or Nil
  history,                      \* in order: the lines handleLine has decided on, the subscriptions made, the delayed resets
  finder,                       \* findDeejPort and the probePort call it is in
  device,                       \* the Arduino sketch: its input buffer and LED states, the bytes on their way to it
  call,                         \* a call of a pure helper: [fn, in, out]
  monitor,                      \* the ProcessMonitor, its loop goroutine and the caller of its Stop
  linesRead, writesCalled,      \* counters that bound the run
  crashed                       \* "none", or the panic that ended the process

vars == <<config, invertSliders, noiseLevel, reloadPending, comPort, baudRate, connected,
          conn, writeMu, lastKnownNumSliders, currentSliderPercentValues,
          sliderMoveConsumers, handles, written, acked, loops, pc, result, timers, writers,
          sendResult,
          received, media, subscribing, history, finder, device, call, monitor,
          linesRead, writesCalled, crashed>>

\* the fields outside the connection: configuration and tracker
peerVars == <<finder, device, call, monitor>>
cfgVars == <<config, invertSliders, noiseLevel, reloadPending>>
trackerVars == <<lastKnownNumSliders, currentSliderPercentValues>>
sioConnVars == <<comPort, baudRate, connected, conn>>
busVars == <<sliderMoveConsumers, received, media, subscribing, history>>
writeVars == <<writeMu, writers, sendResult, written, acked, writesCalled>>

Alive == crashed = "none"

Handles == 1..Len(handles)
Loops == 1..Len(loops)

IsOpen(h) == h \in Handles /\ handles[h].open
OpenHandles == {h \in Handles : handles[h].open}

\* NewSerialIO
InitSerialIOWith(invert) ==
  /\ config = [port |-> "COM1", baud |-> 9600]
  /\ invertSliders = invert
  /\ noiseLevel = 1
  /\ reloadPending = FALSE
  /\ comPort = ""
  /\ baudRate = 0
  /\ connected = FALSE
  /\ conn = Nil
  /\ writeMu = ""
  /\ lastKnownNumSliders = 0
  /\ currentSliderPercentValues = <<>>
  /\ sliderMoveConsumers = <<>>
  /\ handles = <<>>
  /\ written = <<>>
  /\ acked = <<>>
  /\ loops = <<>>
  /\ pc = [c \in Procs |-> IF c = "reload" THEN "wait" ELSE "idle"]
  /\ result = "none"
  /\ timers = 0
  /\ writers = [w \in Writers |-> [pc |-> "idle", cmd |-> <<>>, h |-> Nil]]
  /\ sendResult = "none"
  /\ received = <<>>
  /\ media = <<>>
  /\ subscribing = Nil
  /\ history = <<>>
  /\ linesRead = 0
  /\ writesCalled = 0
  /\ crashed = "none"

InitSerialIO == InitSerialIOWith(FALSE)

\* the port finder has not been called
FinderIdle ==
  [pc |-> "idle", ports |-> <<>>, i |-> 0, open |-> {}, now |-> 0, deadline |-> 0,
   accumulated |-> <<>>, validLines |-> 0, fed |-> <<>>, extracted |-> <<>>, reads |-> 0,
   ok |-> FALSE, why |-> "none", probed |-> <<>>, result |-> ""]

\* no device is attached
NoDevice == [attached |-> FALSE]

\* no helper is being called
NoCall == [fn |-> "none"]

\* no process monitor has been created
NoMonitor == [pc |-> "absent"]

Init ==
  /\ InitSerialIO
  /\ finder = FinderIdle
  /\ device = NoDevice
  /\ call = NoCall
  /\ monitor = NoMonitor

\* the same with either setting of config.InvertSliders
InitInvert ==
  /\ \E invert \in BOOLEAN : InitSerialIOWith(invert)
  /\ finder = FinderIdle
  /\ device = NoDevice
  /\ call = NoCall
  /\ monitor = NoMonitor

\* where a caller continues when Stop / Start returns: the reload handler goes
\* on with its cycle, any other caller is done
AfterStop(c) == IF c = "reload" THEN "delay" ELSE "idle"
AfterStart(c) == IF c = "reload" THEN "wait" ELSE "idle"

\* Start without the check of line 73
StartNeverRefuses == FALSE

\* ------------------------------------------------------------ SerialIO.Start
\* whether Start refuses: the connected flag it reads at line 73
StartRefuses == connected

\* lines 73-86, the head of Start run by caller c: don't allow multiple
\* concurrent connections; otherwise record the configured port and baud rate
StartCheck(c) ==
  /\ IF StartRefuses
     THEN /\ pc' = [pc EXCEPT ![c] = AfterStart(c)]
          /\ result' = "already_active"
          /\ UNCHANGED <<comPort, baudRate>>
     ELSE /\ pc' = [pc EXCEPT ![c] = "start_open"]
          /\ UNCHANGED result
          /\ comPort' = config.port
          /\ baudRate' = config.baud
  /\ UNCHANGED <<peerVars, cfgVars, trackerVars, connected, conn, busVars, writeVars, handles, loops,
                 timers, linesRead, crashed>>

\* a caller other than the reload handler calls Start
CallStart(c) ==
  /\ Alive /\ c # "reload" /\ pc[c] = "idle"
  /\ StartCheck(c)

\* serial.Open can succeed on a port no handle of ours holds open (the OS grants
\* a serial port to one opener at a time)
CanOpen(c, port, budget) ==
  /\ port \in Ports
  /\ Cardinality({h \in Handles : handles[h].by = c}) < budget
  /\ \A h \in Handles : handles[h].open => handles[h].port # port

\* a Start that goes on after a failed open
GoOnAfterOpenError(c) == "start_conn"

\* lines 94-99: where the caller continues when the open has failed: Start
\* returns the error
AfterOpenError(c) == AfterStart(c)

\* lines 92-99: sio.conn, err = serial.Open(sio.comPort, sio.connOptions), the
\* environment letting at most `budget` opens of caller c succeed
StartOpenWithin(c, budget) ==
  /\ Alive /\ pc[c] = "start_open"
  /\ \/ /\ CanOpen(c, comPort, budget)
        /\ handles' = Append(handles, [port |-> comPort, open |-> TRUE, failed |-> FALSE,
                                       by |-> c])
        /\ written' = Append(written, <<>>)
        /\ acked' = Append(acked, <<>>)
        /\ conn' = Len(handles) + 1
        /\ pc' = [pc EXCEPT ![c] = "start_conn"]
        /\ UNCHANGED result
     \/ /\ conn' = Nil
        /\ pc' = [pc EXCEPT ![c] = AfterOpenError(c)]
        /\ result' = "open_failed"
        /\ UNCHANGED <<handles, written, acked>>
  /\ UNCHANGED <<peerVars, cfgVars, trackerVars, comPort, baudRate, connected, busVars, writeMu,
                 writers, sendResult, writesCalled, loops, timers, linesRead, crashed>>

StartOpen(c) == StartOpenWithin(c, MaxOpens)

\* the same with room for the reconnects of a caller
StartReopen(c) == StartOpenWithin(c, MaxOpens + MaxReopens)

\* a read loop as the go statement of line 113 creates it. pc: where the loop
\* goroutine is; rpc, rconn, rline: where its readLine goroutine is, the handle
\* it reads and the line it is delivering; line, events, cons, ci, ei: the
\* locals of handleLine (resized: whether this call took the branch of lines
\* 382-389); stopped: whether the loop has received a stop signal
NewLoop == [pc |-> "init", rconn |-> Nil, rpc |-> "none", rline |-> <<>>, line |-> <<>>,
            resized |-> FALSE, events |-> <<>>, cons |-> <<>>, ci |-> 0, ei |-> 0,
            stopped |-> FALSE]

\* lines 105-127: sio.conn.SetDTR(true), a method call on sio.conn as it is
\* now; then set the flag, spawn the read loop and return nil
StartConnected(c) ==
  /\ Alive /\ pc[c] = "start_conn"
  /\ IF conn = Nil
     THEN crashed' = "dtr_nil" /\ UNCHANGED <<connected, loops, pc, result>>
     ELSE /\ connected' = TRUE
          /\ loops' = Append(loops, NewLoop)
          /\ pc' = [pc EXCEPT ![c] = AfterStart(c)]
          /\ result' = "ok"
          /\ UNCHANGED crashed
  /\ UNCHANGED <<peerVars, cfgVars, trackerVars, comPort, baudRate, conn, busVars, writeVars, handles,
                 timers, linesRead>>

\* Stop without the check of line 132
StopAlwaysSignals == TRUE

\* ------------------------------------------------------------- SerialIO.Stop
\* whether Stop signals the read loop: the connected flag it reads at line 132
StopSignals == connected

\* lines 132-137, the head of Stop run by caller c
StopCheck(c) ==
  /\ pc' = [pc EXCEPT ![c] = IF StopSignals THEN "stop_send" ELSE AfterStop(c)]
  /\ result' = IF StopSignals THEN result ELSE "nothing_to_stop"
  /\ UNCHANGED <<trackerVars, sioConnVars, busVars, writeVars, handles, loops,
                 linesRead, crashed>>

\* a caller other than the reload handler calls Stop
CallStop(c) ==
  /\ Alive /\ c # "reload" /\ pc[c] = "idle"
  /\ StopCheck(c)
  /\ UNCHANGED <<peerVars, cfgVars, timers>>

\* line 134 meets line 119: the unbuffered send on stopChannel is received by a
\* read loop waiting in its select; Stop returns, the loop goes on to close
StopRendezvous(c, l) ==
  /\ Alive /\ pc[c] = "stop_send"
  /\ l \in Loops /\ loops[l].pc = "select"
  /\ pc' = [pc EXCEPT ![c] = AfterStop(c)]
  /\ loops' = [loops EXCEPT ![l].pc = "close_conn", ![l].stopped = TRUE]
  /\ result' = "stop_signalled"
  /\ UNCHANGED <<peerVars, cfgVars, trackerVars, sioConnVars, busVars, writeVars, handles,
                 timers, linesRead, crashed>>

\* ------------------------------------------------------------ SerialIO.close
\* a handle after Close: its port is released, reads and writes on it fail
ClosedHandle(h) == [handles[h] EXCEPT !.port = "", !.open = FALSE, !.failed = FALSE]

\* line 321: sio.conn.Close()
CloseConn(l) ==
  /\ Alive /\ l \in Loops /\ loops[l].pc = "close_conn"
  /\ IF conn = Nil
     THEN crashed' = "close_nil" /\ UNCHANGED <<handles, loops>>
     ELSE /\ handles' = [handles EXCEPT ![conn] = ClosedHandle(conn)]
          /\ loops' = [loops EXCEPT ![l].pc = "close_nil"]
          /\ UNCHANGED crashed
  /\ UNCHANGED <<peerVars, cfgVars, trackerVars, sioConnVars, busVars, writeVars, pc, result,
                 timers, linesRead>>

\* line 327: sio.conn = nil
CloseNil(l) ==
  /\ Alive /\ l \in Loops /\ loops[l].pc = "close_nil"
  /\ conn' = Nil
  /\ loops' = [loops EXCEPT ![l].pc = "close_flag"]
  /\ UNCHANGED <<peerVars, cfgVars, trackerVars, comPort, baudRate, connected, busVars, writeVars,
                 handles, pc, result, timers, linesRead, crashed>>

\* where the read loop goes after close returns: the for loop has no exit
AfterClose == "select"

\* line 328: sio.connected = false, and back to the select
CloseFlag(l) ==
  /\ Alive /\ l \in Loops /\ loops[l].pc = "close_flag"
  /\ connected' = FALSE
  /\ loops' = [loops EXCEPT ![l].pc = AfterClose]
  /\ UNCHANGED <<peerVars, cfgVars, trackerVars, comPort, baudRate, conn, busVars, writeVars,
                 handles, pc, result, timers, linesRead, crashed>>

\* ------------------------------------------------- the read loop goroutine
\* lines 114-115: the goroutine wraps sio.conn, as it is when the goroutine
\* runs, in a reader and spawns the readLine goroutine
LoopInit(l) ==
  /\ Alive /\ l \in Loops /\ loops[l].pc = "init"
  /\ loops' = [loops EXCEPT ![l].pc = "select", ![l].rconn = conn, ![l].rpc = "read"]
  /\ UNCHANGED <<peerVars, cfgVars, trackerVars, sioConnVars, busVars, writeVars, handles, pc, result,
                 timers, linesRead, crashed>>

\* the lines the device may put on the wire
WireLines ==
  { <<"0", "|", "1", "0", "2", "3", "\r", "\n">>,
    <<"7", "\r", "\n">>,
    <<"#", "B", "1", "\r", "\n">> }

\* the lines of a device that also sends frames of changing length, frames
\* with values above 1023 and lines that are no frames: 7, 20 and 30 normalize
\* to 0.00, 0.01 and 0.02
FrameLines ==
  { <<"7", "\r", "\n">>,
    <<"2", "0", "\r", "\n">>,
    <<"3", "0", "\r", "\n">>,
    <<"0", "|", "1", "0", "2", "3", "\r", "\n">>,
    <<"1", "0", "2", "4", "|", "5", "\r", "\n">>,
    <<"#", "B", "1", "\r", "\n">>,
    <<"7", "\n">>,
    <<"1", "2", "3", "4", "5", "\r", "\n">> }

\* lines for the tracker and the button handler: frames of one slider, a
\* frame whose second value is above 1023, a frame whose first value is, and
\* button lines with the payloads 0, 1, 2, 3 and none, ended by CRLF or LF
SampleLines ==
  { <<"7", "\r", "\n">>,
    <<"2", "0", "\r", "\n">>,
    <<"3", "0", "\r", "\n">>,
    <<"0", "|", "9", "9", "9", "9", "\r", "\n">>,
    <<"1", "0", "2", "4", "|", "5", "\r", "\n">>,
    <<"#", "B", "0", "\r", "\n">>,
    <<"#", "B", "1", "\n">>,
    <<"#", "B", "2", "\r", "\n">>,
    <<"#", "B", "3", "\r", "\n">>,
    <<"#", "B", "\r", "\n">> }

\* line 336, reader.ReadString('\n') returns a line the device sent, the
\* device sending at most max lines
ReadLineWithin(l, line, max) ==
  /\ Alive /\ l \in Loops /\ loops[l].rpc = "read"
  /\ IsOpen(loops[l].rconn) /\ ~handles[loops[l].rconn].failed
  /\ linesRead < max
  /\ loops' = [loops EXCEPT ![l].rpc = "send", ![l].rline = line]
  /\ linesRead' = linesRead + 1
  /\ UNCHANGED <<peerVars, cfgVars, trackerVars, sioConnVars, busVars, writeVars, handles, pc, result,
                 timers, crashed>>

DeviceLine(l, line) == ReadLineWithin(l, line, MaxLines)

DeviceFrame(l, line) == ReadLineWithin(l, line, MaxFrames)

DeviceSample(l, line) == ReadLineWithin(l, line, MaxSamples)

\* the device is unplugged: reads of the handle fail from now on
Unplug(h) ==
  /\ Alive /\ IsOpen(h) /\ ~handles[h].failed
  /\ handles' = [handles EXCEPT ![h].failed = TRUE]
  /\ UNCHANGED <<peerVars, cfgVars, trackerVars, sioConnVars, busVars, writeVars, loops, pc, result,
                 timers, linesRead, crashed>>

\* what the readLine goroutine does when its read fails: it returns (line 344)
AfterReadError == "exited"

\* lines 336-345: ReadString fails (the handle was closed or the device is
\* gone) and the readLine goroutine returns; a reader wrapped around a nil
\* connection panics on its first read
ReadFails(l) ==
  /\ Alive /\ l \in Loops /\ loops[l].rpc = "read"
  /\ IF loops[l].rconn = Nil
     THEN crashed' = "reader_nil" /\ UNCHANGED loops
     ELSE /\ ~handles[loops[l].rconn].open \/ handles[loops[l].rconn].failed
          /\ loops' = [loops EXCEPT ![l].rpc = AfterReadError, ![l].rconn = Nil]
          /\ UNCHANGED crashed
  /\ UNCHANGED <<peerVars, cfgVars, trackerVars, sioConnVars, busVars, writeVars, handles, pc, result,
                 timers, linesRead>>

\* line 352 meets line 121: the loop receives the line from its lineChannel
LoopRecvLine(l) ==
  /\ Alive /\ l \in Loops /\ loops[l].pc = "select" /\ loops[l].rpc = "send"
  /\ loops' = [loops EXCEPT ![l].pc = "handle", ![l].line = loops[l].rline,
                            ![l].rline = <<>>, ![l].rpc = "read"]
  /\ UNCHANGED <<peerVars, cfgVars, trackerVars, sioConnVars, busVars, writeVars, handles, pc, result,
                 timers, linesRead, crashed>>

\* what handleLine has decided on one line: how the call ended ("button",
\* "ignored", "malformed", "ok"), whether it reset the tracked values, and the
\* move events it accepted
LineEntry(line, outcome, resized, events) ==
  [kind |-> "line", line |-> line, outcome |-> outcome, resized |-> resized,
   events |-> events]

\* handleLine, lines 359-390: button lines go to handleButtonCommand, lines
\* that do not match are dropped, a telemetry line updates the slider count
HandleLine(l) ==
  /\ Alive /\ l \in Loops /\ loops[l].pc = "handle"
  /\ LET line == loops[l].line IN
     IF HasPrefix(line, ButtonMarker)
     THEN /\ media' = IF ButtonAction(line) \in {"PlayPause", "PrevTrack", "NextTrack"}
                      THEN Append(media, ButtonAction(line)) ELSE media
          /\ loops' = [loops EXCEPT ![l].pc = "select", ![l].line = <<>>]
          /\ history' = Append(history, LineEntry(line, "button", FALSE, <<>>))
          /\ UNCHANGED trackerVars
     ELSE IF ~MatchesExpectedLine(line)
     THEN /\ loops' = [loops EXCEPT ![l].pc = "select", ![l].line = <<>>]
          /\ history' = Append(history, LineEntry(line, "ignored", FALSE, <<>>))
          /\ UNCHANGED <<trackerVars, media>>
     ELSE LET numSliders == Len(SplitLine(line)) IN
          /\ lastKnownNumSliders' = numSliders
          /\ currentSliderPercentValues' =
               ResizedValues(numSliders, lastKnownNumSliders, currentSliderPercentValues)
          /\ loops' = [loops EXCEPT ![l].pc = "compute",
                                    ![l].resized = numSliders # lastKnownNumSliders]
          /\ UNCHANGED <<media, history>>
  /\ UNCHANGED <<peerVars, cfgVars, sioConnVars, sliderMoveConsumers, received, subscribing, writeVars,
                 handles, pc, result, timers, linesRead, crashed>>

\* line 436, range sio.sliderMoveConsumers: the slice the loop iterates. The
\* read is not synchronised with the append of line 144; while that append is
\* in progress the loop may see the slice of before, or the slice with its new
\* length in which any slot may not hold its channel yet (a nil channel)
ConsumersSeen ==
  IF subscribing = Nil THEN {sliderMoveConsumers}
  ELSE LET new == Append(sliderMoveConsumers, subscribing)
       IN  {sliderMoveConsumers} \cup
           {[i \in 1..Len(new) |-> IF i \in torn THEN Nil ELSE new[i]] :
              torn \in SUBSET (1..Len(new))}

\* handleLine, lines 392-436: the loop over the sliders, up to the first send
ProcessLine(l) ==
  /\ Alive /\ l \in Loops /\ loops[l].pc = "compute"
  /\ LET r == ProcessSliders(SplitLine(loops[l].line), 1, currentSliderPercentValues,
                             <<>>, invertSliders, noiseLevel)
     IN  IF r.status = "oob"
         THEN crashed' = "index" /\ UNCHANGED <<loops, currentSliderPercentValues, history>>
         ELSE /\ currentSliderPercentValues' = r.values
              /\ history' = Append(history, LineEntry(loops[l].line, r.status,
                                                      loops[l].resized, r.events))
              /\ UNCHANGED crashed
              /\ \E cons \in ConsumersSeen :
                   IF r.status = "ok" /\ r.events # <<>> /\ cons # <<>>
                   THEN loops' = [loops EXCEPT ![l].pc = "deliver", ![l].line = <<>>,
                                               ![l].resized = FALSE,
                                               ![l].events = r.events,
                                               ![l].cons = cons,
                                               ![l].ci = 1, ![l].ei = 1]
                   ELSE loops' = [loops EXCEPT ![l].pc = "select", ![l].line = <<>>,
                                               ![l].resized = FALSE]
  /\ UNCHANGED <<peerVars, cfgVars, sioConnVars, lastKnownNumSliders, sliderMoveConsumers, received,
                 media, subscribing, writeVars, handles, pc, result, timers, linesRead>>

\* a delivery that gives each event to every consumer before the next event
AfterSendEventMajor(L) ==
  IF L.ci < Len(L.cons) THEN [L EXCEPT !.ci = L.ci + 1]
  ELSE IF L.ei < Len(L.events) THEN [L EXCEPT !.ci = 1, !.ei = L.ei + 1]
  ELSE [L EXCEPT !.pc = "select", !.events = <<>>, !.cons = <<>>, !.ci = 0, !.ei = 0]

\* lines 436-440, the two nested loops: the loop record after one send: the
\* next event for the same consumer, else the first event for the next
\* consumer, else handleLine returns
AfterSend(L) ==
  IF L.ei < Len(L.events) THEN [L EXCEPT !.ei = L.ei + 1]
  ELSE IF L.ci < Len(L.cons) THEN [L EXCEPT !.ci = L.ci + 1, !.ei = 1]
  ELSE [L EXCEPT !.pc = "select", !.events = <<>>, !.cons = <<>>, !.ci = 0, !.ei = 0]

\* line 438: consumer <- moveEvent, received by the consumer of that channel;
\* a send on a nil channel blocks forever
Deliver(l) ==
  /\ Alive /\ l \in Loops /\ loops[l].pc = "deliver"
  /\ LET L == loops[l]
         ch == L.cons[L.ci]
     IN  IF ch = Nil
         THEN loops' = [loops EXCEPT ![l].pc = "blocked"] /\ UNCHANGED received
         ELSE
         /\ received' = [received EXCEPT ![ch] = Append(@, L.events[L.ei])]
         /\ loops' = [loops EXCEPT ![l] = AfterSend(L)]
  /\ UNCHANGED <<peerVars, cfgVars, trackerVars, sioConnVars, sliderMoveConsumers, media, subscribing,
                 history, writeVars, handles, pc, result, timers, linesRead, crashed>>

\* SubscribeToSliderMoveEvents, line 143: the new channel is made; at most
\* max channels are subscribed
SubscribeWithin(max) ==
  /\ Alive /\ subscribing = Nil /\ Len(sliderMoveConsumers) < max
  /\ subscribing' = Len(received) + 1
  /\ received' = Append(received, <<>>)
  /\ UNCHANGED <<peerVars, cfgVars, trackerVars, sioConnVars, sliderMoveConsumers, media, history,
                 writeVars, handles, loops, pc, result, timers, linesRead, crashed>>

SubscribeBegin == SubscribeWithin(MaxSubs)

\* the same with room for the channels of further consumers
SubscribeAgain == SubscribeWithin(MaxSubs + MaxResubs)

\* SubscribeToSliderMoveEvents, lines 144-146: the append has completed and the
\* channel is returned
Subscribe ==
  /\ Alive /\ subscribing # Nil
  /\ sliderMoveConsumers' = Append(sliderMoveConsumers, subscribing)
  /\ history' = Append(history, [kind |-> "subscribe", ch |-> subscribing])
  /\ subscribing' = Nil
  /\ UNCHANGED <<peerVars, cfgVars, trackerVars, sioConnVars, received, media, writeVars, handles,
                 loops, pc, result, timers, linesRead, crashed>>

\* ------------------------------------------------- setupOnConfigReload
\* the configuration file changed: new connection parameters (or the same),
\* and a notification to the subscribers
ConfigReload(p) ==
  /\ Alive /\ p \in Params
  /\ config' = p
  /\ reloadPending' = TRUE
  /\ UNCHANGED <<peerVars, invertSliders, noiseLevel, trackerVars, sioConnVars, busVars,
                 writeVars, handles, loops, pc, result, timers, linesRead, crashed>>

\* a handler that renews the connection on every reload
AlwaysRenew == TRUE

\* whether the reload handler renews the connection, lines 300-301
ParamsChanged == config.port # comPort \/ config.baud # baudRate

\* lines 287-304: the handler takes the notification, schedules the delayed
\* reset of the slider count and, if the parameters changed, calls Stop
ReloadReceive ==
  /\ Alive /\ pc["reload"] = "wait" /\ reloadPending
  /\ timers < MaxTimers
  /\ reloadPending' = FALSE
  /\ timers' = timers + 1
  /\ UNCHANGED <<peerVars, config, invertSliders, noiseLevel>>
  /\ IF ParamsChanged
     THEN StopCheck("reload")
     ELSE UNCHANGED <<pc, trackerVars, sioConnVars, busVars, writeVars, handles, loops,
                     result, linesRead, crashed>>

\* lines 307-309: the settle delay has passed, the handler calls Start
ReloadDelay ==
  /\ Alive /\ pc["reload"] = "delay"
  /\ StartCheck("reload")

\* a delayed reset in the history, with the number of handleLine calls that
\* had passed the slider-count update when it fired; resets with nothing
\* between them are one entry
ResetEntry ==
  [kind |-> "reset", inflight |-> Cardinality({l \in Loops : loops[l].pc = "compute"})]

\* a reset that leaves the tracked count as it is
CountKept == lastKnownNumSliders

\* line 296: the count the delayed reset stores
CountAfterReset == 0

\* lines 294-297: a delayed reset fires
TimerFire ==
  /\ Alive /\ timers > 0
  /\ timers' = timers - 1
  /\ lastKnownNumSliders' = CountAfterReset
  /\ history' = IF history # <<>> /\ history[Len(history)].kind = "reset"
                THEN history ELSE Append(history, ResetEntry)
  /\ UNCHANGED <<peerVars, cfgVars, currentSliderPercentValues, sioConnVars, sliderMoveConsumers,
                 received, media, subscribing, writeVars, handles, loops, pc, result,
                 linesRead, crashed>>

\* ------------------------------------------------------ the write operations
\* the command lines the writers send: one SendLEDState, one SendAllLEDStates
\* and one SendAudioPeaks call
Commands ==
  { LEDCommand(1, TRUE),
    AllLEDCommand((0 :> TRUE) @@ (1 :> FALSE), 2),
    AudioPeaksCommand((0 :> 50), (0 :> <<"c", "h", "r", "o", "m", "e">>), 1) }

\* the write guard without its test of the connected flag
NotConnectedNilOnly == conn = Nil

\* the guard at the head of every write operation, lines 151, 181, 216
NotConnected == ~connected \/ conn = Nil

IdleWriter == [pc |-> "idle", cmd |-> <<>>, h |-> Nil]

\* SendLEDState / SendAllLEDStates / SendAudioPeaks is called and runs up to
\* its Lock: it fails when not connected, and builds its command otherwise
CallSend(w, cmd) ==
  /\ Alive /\ writers[w].pc = "idle"
  /\ writesCalled < MaxWrites
  /\ writesCalled' = writesCalled + 1
  /\ IF NotConnected
     THEN sendResult' = "not_connected" /\ UNCHANGED writers
     ELSE /\ writers' = [writers EXCEPT ![w] = [pc |-> "lock", cmd |-> cmd, h |-> Nil]]
          /\ UNCHANGED sendResult
  /\ UNCHANGED <<peerVars, cfgVars, trackerVars, sioConnVars, busVars, writeMu, written, acked,
                 handles, loops, pc, result, timers, linesRead, crashed>>

\* a write mutex that never excludes anyone
MutexAlwaysFree == TRUE

\* whether the mutex lets a writer in
MutexFree == writeMu = ""

\* the two parts in which the bytes of one Write call reach the port
FirstPart(cmd) == SubSeq(cmd, 1, Len(cmd) \div 2)
SecondPart(cmd) == SubSeq(cmd, Len(cmd) \div 2 + 1, Len(cmd))

\* a write error that drops the connection flag
DisconnectedAfterWriteError == FALSE

\* lines 166-169, 201-204, 233-236: the connected flag after a failed Write:
\* the error path returns the error and assigns nothing
ConnectedAfterWriteError == connected

\* sio.writeMu.Lock() and sio.conn.Write(command), lines 162-165, 197-200,
\* 229-232: a method call on sio.conn as it is now. The Write fails on a closed
\* handle or on a port error, and the deferred Unlock runs as the operation
\* returns the error; otherwise the first bytes of the command reach the port
WriteBegin(w) ==
  /\ Alive /\ writers[w].pc = "lock"
  /\ MutexFree
  /\ IF conn = Nil
     THEN crashed' = "write_nil"
          /\ UNCHANGED <<writers, written, writeMu, sendResult, connected>>
     ELSE /\ UNCHANGED crashed
          /\ \/ /\ IsOpen(conn)
                /\ written' = [written EXCEPT ![conn] = @ \o FirstPart(writers[w].cmd)]
                /\ writers' = [writers EXCEPT ![w].pc = "write", ![w].h = conn]
                /\ writeMu' = w
                /\ UNCHANGED <<sendResult, connected>>
             \/ /\ writers' = [writers EXCEPT ![w] = IdleWriter]
                /\ sendResult' = "write_error"
                /\ connected' = ConnectedAfterWriteError
                /\ UNCHANGED <<written, writeMu>>
  /\ UNCHANGED <<peerVars, cfgVars, trackerVars, comPort, baudRate, conn, busVars, acked, writesCalled,
                 handles, loops, pc, result, timers, linesRead>>

\* the rest of the command reaches the port and Write returns; if the handle
\* was closed meanwhile, Write returns an error. The deferred Unlock runs as
\* the operation returns
WriteEnd(w) ==
  /\ Alive /\ writers[w].pc = "write"
  /\ LET h == writers[w].h IN
     IF IsOpen(h)
     THEN /\ written' = [written EXCEPT ![h] = @ \o SecondPart(writers[w].cmd)]
          /\ acked' = [acked EXCEPT ![h] = Append(@, writers[w].cmd)]
          /\ sendResult' = "ok"
          /\ UNCHANGED connected
     ELSE /\ sendResult' = "write_error"
          /\ connected' = ConnectedAfterWriteError
          /\ UNCHANGED <<written, acked>>
  /\ writers' = [writers EXCEPT ![w] = IdleWriter]
  /\ writeMu' = ""
  /\ UNCHANGED <<peerVars, cfgVars, trackerVars, comPort, baudRate, conn, busVars, writesCalled,
                 handles, loops, pc, result, timers, linesRead, crashed>>

\* ------------------------------------------------- findDeejPort, probePort
\* everything of SerialIO, which the port finder does not touch
sioVars == <<cfgVars, trackerVars, sioConnVars, busVars, writeVars, handles, loops, pc,
             result, timers, linesRead, crashed>>

\* what serial.GetPortsList can return without error
PortLists == {<<>>, <<"COM1">>, <<"COM1", "COM2">>, <<"COM2", "COM1">>}

\* what one Read can return: a whole line, a line in two pieces, a byte that
\* belongs to no telemetry line, a bare line feed, two lines at once
GarbageChunk == <<"x">>
ProbeChunks ==
  { <<"7", "\r", "\n">>,
    <<"7">>,
    <<"\r", "\n">>,
    GarbageChunk,
    <<"\n">>,
    <<"x", "\n", "1", "|", "2", "\r", "\n">> }

\* how long a Read that returns bytes or an error can take, in ms: the read
\* timeout of line 64 is the longest
ReadDelays == {probeReadTimeout \div 2, probeReadTimeout}

\* a port that has sent nothing but garbage so far
OnlyGarbage(bytes) == \A n \in 1..Len(bytes) : bytes[n] = GarbageChunk[1]

\* line 87, strings.Index(accumulated, "\n"), as a position from 1; 0: none
IndexLF(acc) ==
  IF \E n \in 1..Len(acc) : acc[n] = "\n"
  THEN CHOOSE n \in 1..Len(acc) : acc[n] = "\n" /\ \A m \in 1..(n - 1) : acc[m] # "\n"
  ELSE 0

\* an accumulator that loses the byte after each line
RestSkippingByte(acc, idx) == SubSeq(acc, idx + 2, Len(acc))

\* line 93, accumulated[idx+1:]
RestAfterLine(acc, idx) == SubSeq(acc, idx + 1, Len(acc))

\* a probe that is content with one valid line
AnyValidLine(valid) == valid >= 1

\* line 97, validLines >= requiredValidLines
EnoughValidLines(valid) == valid >= requiredValidLines

\* lines 86-100, the inner loop of probePort: the complete lines are taken off
\* the accumulator one by one until none is left or enough of them matched
RECURSIVE ExtractLines(_, _, _)
ExtractLines(acc, valid, lines) ==
  LET idx == IndexLF(acc) IN
  IF idx = 0
  THEN [accumulated |-> acc, validLines |-> valid, lines |-> lines, accepted |-> FALSE]
  ELSE LET line == SubSeq(acc, 1, idx)
           rest == RestAfterLine(acc, idx)
           v == IF MatchesExpectedLine(line) THEN valid + 1 ELSE valid
       IN  IF MatchesExpectedLine(line) /\ EnoughValidLines(v)
           THEN [accumulated |-> rest, validLines |-> v, lines |-> Append(lines, line),
                 accepted |-> TRUE]
           ELSE ExtractLines(rest, v, Append(lines, line))

\* the port being probed
ProbedPort == finder.ports[finder.i]

\* a probe that leaves its port open when it returns
LeftOpen(open, port) == open

\* line 60, defer conn.Close()
ClosedOnReturn(open, port) == open \ {port}

\* probePort returns ok; why: "open", "configure", "read", "deadline", "valid"
Returned(ok, why) ==
  [finder EXCEPT !.pc = "returned", !.ok = ok, !.why = why,
                 !.open = ClosedOnReturn(@, ProbedPort)]

\* lines 19-33: findDeejPort enumerates the ports
ListPorts ==
  /\ finder.pc = "idle"
  /\ \/ finder' = [finder EXCEPT !.pc = "done", !.why = "enumeration"]
     \/ \E ports \in PortLists :
          finder' = IF ports = <<>>
                    THEN [finder EXCEPT !.pc = "done", !.why = "empty"]
                    ELSE [finder EXCEPT !.pc = "open", !.ports = ports, !.i = 1]
  /\ UNCHANGED <<sioVars, monitor, device, call>>

\* lines 55-60: probePort opens the port, or returns false
ProbeOpen ==
  /\ finder.pc = "open"
  /\ \/ finder' = Returned(FALSE, "open")
     \/ finder' = [finder EXCEPT !.pc = "timeout", !.open = @ \cup {ProbedPort}]
  /\ UNCHANGED <<sioVars, monitor, device, call>>

\* lines 64-72: the read timeout is set, or the probe returns false; the clock
\* counts ms from here
ProbeSetReadTimeout ==
  /\ finder.pc = "timeout"
  /\ \/ finder' = Returned(FALSE, "configure")
     \/ finder' = [finder EXCEPT !.pc = "loop", !.now = 0, !.deadline = probeTimeout,
                                 !.accumulated = <<>>, !.validLines = 0]
  /\ UNCHANGED <<sioVars, monitor, device, call>>

\* a loop that never looks at the clock
NoDeadline(now, deadline) == TRUE

\* line 74, time.Now().Before(deadline)
BeforeDeadline(now, deadline) == now < deadline

\* line 74: the head of the read loop
ProbeLoop ==
  /\ finder.pc = "loop"
  /\ finder' = IF BeforeDeadline(finder.now, finder.deadline)
               THEN [finder EXCEPT !.pc = "read"]
               ELSE Returned(FALSE, "deadline")
  /\ UNCHANGED <<sioVars, monitor, device, call>>

\* lines 75-78: Read fails
ProbeReadError ==
  /\ finder.pc = "read"
  /\ \E d \in ReadDelays :
       finder' = [Returned(FALSE, "read") EXCEPT !.now = @ + d]
  /\ UNCHANGED <<sioVars, monitor, device, call>>

\* lines 75-81: Read times out with no byte
ProbeReadNothing ==
  /\ finder.pc = "read"
  /\ finder' = [finder EXCEPT !.pc = "loop", !.now = @ + probeReadTimeout]
  /\ UNCHANGED <<sioVars, monitor, device, call>>

\* lines 75-100: Read returns a chunk; the port sends at most MaxChunks
\* chunks, or garbage for ever
ProbeReadData(chunk) ==
  /\ finder.pc = "read"
  /\ \/ finder.reads < MaxChunks
     \/ chunk = GarbageChunk /\ OnlyGarbage(finder.fed)
  /\ \E d \in ReadDelays :
       LET r == ExtractLines(finder.accumulated \o chunk, finder.validLines, <<>>)
           f == [finder EXCEPT !.now = @ + d, !.reads = @ + 1, !.fed = @ \o chunk,
                               !.accumulated = r.accumulated,
                               !.validLines = r.validLines,
                               !.extracted = @ \o r.lines]
       IN  finder' = IF r.accepted
                     THEN [f EXCEPT !.pc = "returned", !.ok = TRUE, !.why = "valid",
                                    !.open = ClosedOnReturn(@, ProbedPort)]
                     ELSE [f EXCEPT !.pc = "loop"]
  /\ UNCHANGED <<sioVars, monitor, device, call>>

\* lines 35-41: findDeejPort returns the port probePort accepted, goes on to
\* the next one, or returns "" after the last
ProbeNext ==
  /\ finder.pc = "returned"
  /\ LET f == [finder EXCEPT !.probed = Append(@, [port |-> ProbedPort, ok |-> finder.ok,
                                                   why |-> finder.why]),
                             !.now = 0, !.deadline = 0, !.accumulated = <<>>,
                             !.validLines = 0, !.fed = <<>>, !.extracted = <<>>,
                             !.reads = 0, !.ok = FALSE, !.why = "none"]
     IN  finder' = IF finder.ok
                   THEN [f EXCEPT !.pc = "done", !.result = ProbedPort]
                   ELSE IF finder.i < Len(finder.ports)
                        THEN [f EXCEPT !.pc = "open", !.i = @ + 1]
                        ELSE [f EXCEPT !.pc = "done"]
  /\ UNCHANGED <<sioVars, monitor, device, call>>

\* ------------------------------------------------- calls of pure helpers
\* the process names shortenAppName is called with: every name of up to
\* MaxName bytes over two vowels and two consonants, and the names of the
\* documentation
NameChars == {"a", "E", "c", "r"}
Chrome == <<"c", "h", "r", "o", "m", "e">>
Firefox == <<"f", "i", "r", "e", "f", "o", "x">>
Discord == <<"d", "i", "s", "c", "o", "r", "d">>
Names ==
  UNION {[1..n -> NameChars] : n \in 0..MaxName} \cup {Chrome, Firefox, Discord}

\* SendAudioPeaks, line 223, is about to call shortenAppName(name)
InitShorten ==
  /\ InitSerialIO
  /\ finder = FinderIdle
  /\ device = NoDevice
  /\ call \in [fn : {"shortenAppName"}, in : Names, out : {<<>>}, done : {FALSE}]
  /\ monitor = NoMonitor

\* the call returns
ShortenCall ==
  /\ call.fn = "shortenAppName" /\ ~call.done
  /\ call' = [call EXCEPT !.out = shortenAppName(call.in), !.done = TRUE]
  /\ UNCHANGED <<sioVars, monitor, finder, device>>

\* ------------------------------------------------- the device's LED parser
\* an LED that is lit whatever the byte
AlwaysOn(c) == TRUE

\* line 355, (*ptr != '0')
LedOn(c) == c # "0"

\* lines 358-363: from ptr, the position after the next comma, or the end
AfterComma(cmd, ptr) ==
  IF \E n \in ptr..Len(cmd) : cmd[n] = ","
  THEN 1 + CHOOSE n \in ptr..Len(cmd) : cmd[n] = "," /\ \A m \in ptr..(n - 1) : cmd[m] # ","
  ELSE Len(cmd) + 1

\* lines 354-364, the loop of the #LS: parser: ptr is a position in cmd (its
\* end is the terminating NUL), led the LED states
RECURSIVE ParseLS(_, _, _, _)
ParseLS(cmd, ptr, ledIndex, led) ==
  IF ptr > Len(cmd) \/ ledIndex >= NUM_SLIDERS THEN led
  ELSE ParseLS(cmd, AfterComma(cmd, ptr), ledIndex + 1,
               [led EXCEPT ![ledIndex + 1] = LedOn(cmd[ptr])])

\* atoi of a string that starts with digits or is empty: the value of its
\* leading digits (the host sends no sign and no space)
CAtoi(s) ==
  LET n == IF \E k \in 1..Len(s) : s[k] \notin Digits
           THEN (CHOOSE k \in 1..Len(s) :
                   s[k] \notin Digits /\ \A m \in 1..(k - 1) : s[m] \in Digits) - 1
           ELSE Len(s)
  IN  Atoi(SubSeq(s, 1, n))

\* processCommand, lines 285-382, for the LED commands: the batched one of
\* lines 351-368 and the single one of lines 372-381; the quiet and audio-peak
\* commands return before and leave the LEDs alone
ProcessCommand(cmd, led) ==
  IF HasPrefix(cmd, <<"#", "L", "S", ":">>) THEN ParseLS(cmd, 5, 0, led)
  ELSE IF HasPrefix(cmd, <<"#", "L">>) /\ \E n \in 1..Len(cmd) : cmd[n] = ":"
  THEN LET colonPos == CHOOSE n \in 1..Len(cmd) :
                         cmd[n] = ":" /\ \A m \in 1..(n - 1) : cmd[m] # ":"
           ledId == CAtoi(SubSeq(cmd, 3, colonPos - 1))
           state == CAtoi(SubSeq(cmd, colonPos + 1, Len(cmd)))
       IN  IF ledId < NUM_SLIDERS THEN [led EXCEPT ![ledId + 1] = (state # 0)] ELSE led
  ELSE led

\* a device with some LED states, nothing received yet
Devices ==
  [attached : {TRUE}, inputBuffer : {<<>>}, receivingCommand : {FALSE},
   ledStates : [1..NUM_SLIDERS -> BOOLEAN], wire : {<<>>}, processed : {0}]

\* the vectors SendAllLEDStates is called with: a state for each slider
LEDCalls ==
  UNION {[fn : {"SendAllLEDStates"}, states : [0..(n - 1) -> BOOLEAN], numSliders : {n},
          before : [1..NUM_SLIDERS -> BOOLEAN], done : {FALSE}] : n \in 0..MaxNumSliders}

\* the process monitor is about to call SendAllLEDStates; `before` are the
\* LED states of the device at that time
InitLED ==
  /\ InitSerialIO
  /\ finder = FinderIdle
  /\ device \in Devices
  /\ call \in LEDCalls
  /\ monitor = NoMonitor
  /\ call.before = device.ledStates

\* lines 186-199 of SendAllLEDStates: the command is built and written
SendAll ==
  /\ call.fn = "SendAllLEDStates" /\ ~call.done
  /\ call' = [call EXCEPT !.done = TRUE]
  /\ device' = [device EXCEPT !.wire = @ \o AllLEDCommand(call.states, call.numSliders)]
  /\ UNCHANGED <<sioVars, monitor, finder>>

\* checkSerialInput, lines 218-241: the device takes one byte. The timeout of
\* lines 245-249 needs 100 ms without a byte inside a command; a command is
\* written whole, so it does not apply.
DeviceRead ==
  /\ device.attached /\ device.wire # <<>>
  /\ LET c == Head(device.wire)
         d == [device EXCEPT !.wire = Tail(@)]
     IN  device' =
           IF c = "#" /\ Len(device.inputBuffer) = 0
           THEN [d EXCEPT !.receivingCommand = TRUE, !.inputBuffer = <<c>>]
           ELSE IF ~device.receivingCommand THEN d
           ELSE IF c \in {"\n", "\r"}
           THEN [d EXCEPT !.receivingCommand = FALSE, !.inputBuffer = <<>>,
                          !.ledStates = IF Len(device.inputBuffer) > 0
                                        THEN ProcessCommand(device.inputBuffer, @) ELSE @,
                          !.processed = IF Len(device.inputBuffer) > 0 THEN @ + 1 ELSE @]
           ELSE IF Len(device.inputBuffer) < InputBufferSize - 1
           THEN [d EXCEPT !.inputBuffer = Append(@, c)]
           ELSE [d EXCEPT !.receivingCommand = FALSE, !.inputBuffer = <<>>]
  /\ UNCHANGED <<sioVars, monitor, finder, call>>

\* ------------------------------------------- ProcessMonitor.isAnyTargetActive
\* the names of the special sessions and targets
masterSessionName == "master"
inputSessionName == "mic"
systemSessionName == "system"
specialTargetAllUnmapped == "deej.unmapped"
specialTargetCurrentWindow == "deej.current"

\* the processes that can be active, by their lower-cased names
ProcessNames == {"chrome.exe", "firefox.exe"}

\* the targets a slider can be mapped to, as the configuration spells them
TargetNames ==
  {"chrome.exe", "Chrome.EXE", "firefox.exe", "master", "Mic", "system",
   "deej.unmapped", "deej.current"}

\* strings.ToLower on the target names
ToLower(name) ==
  CASE name = "Chrome.EXE" -> "chrome.exe"
    [] name = "Mic" -> "mic"
    [] OTHER -> name

\* lines 352-377: the targets are visited in order; audioMode stands for
\* pm.audioMeter != nil
RECURSIVE isAnyTargetActive(_, _, _)
isAnyTargetActive(targets, activeProcesses, audioMode) ==
  IF targets = <<>> THEN FALSE
  ELSE LET targetLower == ToLower(Head(targets)) IN
       IF ~audioMode
          /\ targetLower \in {masterSessionName, inputSessionName, systemSessionName}
       THEN TRUE
       ELSE IF targetLower \in {specialTargetAllUnmapped, specialTargetCurrentWindow}
       THEN FALSE
       ELSE IF targetLower \in activeProcesses THEN TRUE
       ELSE isAnyTargetActive(Tail(targets), activeProcesses, audioMode)

\* the target lists of a slider mapping
TargetLists == UNION {[1..n -> TargetNames] : n \in 0..MaxTargets}

\* checkProcesses, line 286, is about to call isAnyTargetActive
InitActive ==
  /\ InitSerialIO
  /\ finder = FinderIdle
  /\ device = NoDevice
  /\ call \in [fn : {"isAnyTargetActive"}, targets : TargetLists,
               activeProcesses : SUBSET ProcessNames, audioMode : BOOLEAN,
               out : {FALSE}, done : {FALSE}]
  /\ monitor = NoMonitor

\* the call returns
ActiveCall ==
  /\ call.fn = "isAnyTargetActive" /\ ~call.done
  /\ call' = [call EXCEPT !.out = isAnyTargetActive(call.targets, call.activeProcesses,
                                                   call.audioMode),
                          !.done = TRUE]
  /\ UNCHANGED <<sioVars, monitor, finder, device>>

\* ------------------------------------------------------ the ProcessMonitor
\* deej.config.SliderMapping: the targets of slider 0 and of slider 1
SliderMapping == <<(<<"Chrome.EXE">>), (<<"firefox.exe">>)>>

\* a Go map with key k set to v
MapPut(m, k, v) == [x \in DOMAIN m \cup {k} |-> IF x = k THEN v ELSE m[x]]

\* NewProcessMonitor, lines 168-179, in process mode (pm.audioMeter stays nil,
\* lines 188-193). pc: where the loop goroutine is; i: the slider checkProcesses
\* is at; stop: where the caller of Stop is; running: the processes the OS
\* runs; changes, refreshes, stops: counters that bound the run
NewMonitors ==
  [pc : {"new"}, i : {0}, activeProcesses : {{}}, lastKnownStates : {<<>>},
   numSliders : {0}, refreshInterval : {0, 1}, running : SUBSET ProcessNames,
   stop : {"idle"}, changes : {0}, refreshes : {0}, stops : {0}, returned : {0}]

\* the application has created the monitor and the device is attached, its
\* LEDs off (line 25 of the sketch)
InitMonitor ==
  /\ InitSerialIO
  /\ finder = FinderIdle
  /\ device = [attached |-> TRUE, inputBuffer |-> <<>>, receivingCommand |-> FALSE,
               ledStates |-> [n \in 1..NUM_SLIDERS |-> FALSE], wire |-> <<>>,
               processed |-> 0]
  /\ call = NoCall
  /\ monitor \in NewMonitors

\* what the monitor's steps leave alone: everything but the monitor, the bytes
\* written and the device
monitorFrame ==
  <<cfgVars, trackerVars, sioConnVars, busVars, writeMu, writers, sendResult, writesCalled,
    handles, loops, pc, result, timers, linesRead, crashed, finder, call>>

\* SendLEDState / SendAllLEDStates called by the monitor goroutine, lines
\* 150-177 and 180-211 of the serial code: the error of lines 151-153 when not
\* connected, otherwise the command is written to the port. No other writer
\* runs here, so the mutex is free
MonitorSend(cmd) ==
  IF NotConnected \/ ~IsOpen(conn)
  THEN UNCHANGED <<written, acked, device>>
  ELSE /\ written' = [written EXCEPT ![conn] = @ \o cmd]
       /\ acked' = [acked EXCEPT ![conn] = Append(@, cmd)]
       /\ device' = [device EXCEPT !.wire = @ \o cmd]

\* Start, lines 182-196: go pm.monitorLoop()
MonitorStart ==
  /\ monitor.pc = "new"
  /\ monitor' = [monitor EXCEPT !.pc = "initial"]
  /\ UNCHANGED <<monitorFrame, written, acked, device>>

\* Stop, lines 199-202, up to its send on the unbuffered stopChannel
MonitorCallStop ==
  /\ monitor.stop = "idle" /\ monitor.stops < MaxStops
  /\ monitor' = [monitor EXCEPT !.stop = "sending", !.stops = @ + 1]
  /\ UNCHANGED <<monitorFrame, written, acked, device>>

\* lines 232-234: the loop receives from stopChannel, which lets the send of
\* Stop complete, and returns
MonitorStopReceive ==
  /\ monitor.pc = "select" /\ monitor.stop = "sending"
  /\ monitor' = [monitor EXCEPT !.pc = "stopped", !.stop = "idle", !.returned = @ + 1]
  /\ UNCHANGED <<monitorFrame, written, acked, device>>

\* lines 228 and 235-236, with lines 244-278 of checkProcesses: the initial
\* check, or a tick of processTicker; the running processes are listed. When
\* ps.Processes fails checkProcesses returns with nothing changed, which is a
\* step that changes no variable
MonitorCheckBegin ==
  /\ monitor.pc \in {"initial", "select"}
  /\ monitor' = [monitor EXCEPT !.pc = "check", !.i = 0, !.activeProcesses = monitor.running]
  /\ UNCHANGED <<monitorFrame, written, acked, device>>

\* lines 285-324, the callback of iterate for one slider (taken in the order
\* of the slider ids): the LED state is recorded, and sent, when it is new or
\* has changed; after the last slider checkProcesses returns (lines 327-334
\* do nothing in process mode)
MonitorCheckSlider ==
  /\ monitor.pc = "check" /\ monitor.i < Len(SliderMapping)
  /\ LET sliderID == monitor.i
         active == isAnyTargetActive(SliderMapping[sliderID + 1], monitor.activeProcesses,
                                     FALSE)
         changed == sliderID \notin DOMAIN monitor.lastKnownStates
                      \/ monitor.lastKnownStates[sliderID] # active
     IN  /\ monitor' = [monitor EXCEPT
                          !.i = @ + 1,
                          !.pc = IF sliderID + 1 = Len(SliderMapping) THEN "select" ELSE "check",
                          !.numSliders = IF sliderID >= @ THEN sliderID + 1 ELSE @,
                          !.lastKnownStates = IF changed THEN MapPut(@, sliderID, active)
                                              ELSE @]
         /\ IF changed THEN MonitorSend(LEDCommand(sliderID, active))
            ELSE UNCHANGED <<written, acked, device>>
  /\ UNCHANGED monitorFrame

\* lines 237-238 and 339-349: a tick of the refresh ticker, which exists when
\* the refresh interval is positive (lines 215-225)
MonitorRefresh ==
  /\ monitor.pc = "select" /\ monitor.refreshInterval > 0
  /\ monitor.refreshes < MaxRefreshes
  /\ monitor' = [monitor EXCEPT !.refreshes = @ + 1]
  /\ IF monitor.numSliders = 0 THEN UNCHANGED <<written, acked, device>>
     ELSE MonitorSend(AllLEDCommand(monitor.lastKnownStates, monitor.numSliders))
  /\ UNCHANGED monitorFrame

\* a process starts or exits
ProcessesChange ==
  /\ monitor.changes < MaxChanges
  /\ \E r \in SUBSET ProcessNames :
        /\ r # monitor.running
        /\ monitor' = [monitor EXCEPT !.running = r, !.changes = @ + 1]
  /\ UNCHANGED <<monitorFrame, written, acked, device>>

\* ---------------------------------------------------------- specification
\* Start and Stop, by any caller, and the read loops they spawn and signal
StartStop ==
  \/ \E c \in Procs : CallStart(c)
  \/ \E c \in Procs : StartOpen(c)
  \/ \E c \in Procs : StartConnected(c)
  \/ \E c \in Procs : CallStop(c)
  \/ \E c \in Procs : \E l \in Loops : StopRendezvous(c, l)
  \/ \E l \in Loops : CloseConn(l)
  \/ \E l \in Loops : CloseNil(l)
  \/ \E l \in Loops : CloseFlag(l)
  \/ \E l \in Loops : LoopInit(l)
  \/ \E l \in Loops : ReadFails(l)

\* the config-reload handler and its notifications
Reloads ==
  \/ \E p \in Params : ConfigReload(p)
  \/ ReloadReceive
  \/ ReloadDelay
  \/ TimerFire

\* lines arriving and their handling, read errors
Lines ==
  \/ \E l \in Loops : \E line \in WireLines : DeviceLine(l, line)
  \/ \E l \in Loops : LoopRecvLine(l)
  \/ \E l \in Loops : HandleLine(l)
  \/ \E l \in Loops : ProcessLine(l)
  \/ \E l \in Loops : Deliver(l)
  \/ \E h \in Handles : Unplug(h)
  \/ SubscribeBegin
  \/ Subscribe

\* the write operations
Writes ==
  \/ \E w \in Writers : \E cmd \in Commands : CallSend(w, cmd)
  \/ \E w \in Writers : WriteBegin(w)
  \/ \E w \in Writers : WriteEnd(w)

\* the connection life cycle: Start and Stop by the application and by the
\* config-reload handler
Next == StartStop \/ Reloads

Spec == Init /\ [][Next]_vars

\* the read side: the application's Start and Stop, the lines of the device,
\* the subscribers, read errors
NextRead == StartStop \/ Lines

SpecRead == Init /\ [][NextRead]_vars

\* the read side with reconnects and further subscribers
NextBus ==
  \/ NextRead
  \/ \E c \in Procs : StartReopen(c)
  \/ SubscribeAgain

SpecBus == Init /\ [][NextBus]_vars

\* the write side: the application's Start and Stop, the writers
NextWrite == StartStop \/ Writes

SpecWrite == Init /\ [][NextWrite]_vars

\* one connection and the frames of its device, with subscribers
NextLines ==
  \/ \E c \in Procs : CallStart(c)
  \/ \E c \in Procs : StartOpen(c)
  \/ \E c \in Procs : StartConnected(c)
  \/ \E l \in Loops : LoopInit(l)
  \/ \E l \in Loops : \E line \in FrameLines : DeviceFrame(l, line)
  \/ \E l \in Loops : LoopRecvLine(l)
  \/ \E l \in Loops : HandleLine(l)
  \/ \E l \in Loops : ProcessLine(l)
  \/ \E l \in Loops : Deliver(l)
  \/ SubscribeBegin
  \/ Subscribe

SpecLines == Init /\ [][NextLines]_vars

\* the config-reload handler alone: the first reload connects, later ones
\* renew the connection
NextReload ==
  \/ \E c \in Procs : StartOpen(c)
  \/ \E c \in Procs : StartConnected(c)
  \/ \E c \in Procs : \E l \in Loops : StopRendezvous(c, l)
  \/ \E l \in Loops : CloseConn(l)
  \/ \E l \in Loops : CloseNil(l)
  \/ \E l \in Loops : CloseFlag(l)
  \/ \E l \in Loops : LoopInit(l)
  \/ Reloads

SpecReload == Init /\ [][NextReload]_vars

\* one connection, its lines, and several subscribers
NextFanout ==
  \/ \E c \in Procs : CallStart(c)
  \/ \E c \in Procs : StartOpen(c)
  \/ \E c \in Procs : StartConnected(c)
  \/ \E l \in Loops : LoopInit(l)
  \/ \E l \in Loops : \E line \in WireLines : DeviceLine(l, line)
  \/ \E l \in Loops : LoopRecvLine(l)
  \/ \E l \in Loops : HandleLine(l)
  \/ \E l \in Loops : ProcessLine(l)
  \/ \E l \in Loops : Deliver(l)
  \/ SubscribeAgain
  \/ Subscribe

SpecFanout == Init /\ [][NextFanout]_vars

\* one connection, the tracker and the button handler on the lines of the
\* device, sliders inverted or not
NextTracker ==
  \/ \E c \in Procs : CallStart(c)
  \/ \E c \in Procs : StartOpen(c)
  \/ \E c \in Procs : StartConnected(c)
  \/ \E l \in Loops : LoopInit(l)
  \/ \E l \in Loops : \E line \in SampleLines : DeviceSample(l, line)
  \/ \E l \in Loops : LoopRecvLine(l)
  \/ \E l \in Loops : HandleLine(l)
  \/ \E l \in Loops : ProcessLine(l)

SpecTracker == InitInvert /\ [][NextTracker]_vars

\* one connection and its frames, with reloads of the configuration that keep
\* the connection parameters, and their delayed resets
NextReset ==
  \/ \E c \in Procs : CallStart(c)
  \/ \E c \in Procs : StartOpen(c)
  \/ \E c \in Procs : StartConnected(c)
  \/ \E l \in Loops : LoopInit(l)
  \/ \E l \in Loops : \E line \in FrameLines : DeviceLine(l, line)
  \/ \E l \in Loops : LoopRecvLine(l)
  \/ \E l \in Loops : HandleLine(l)
  \/ \E l \in Loops : ProcessLine(l)
  \/ \E p \in Params : p.port = comPort /\ p.baud = baudRate /\ ConfigReload(p)
  \/ ReloadReceive
  \/ TimerFire

SpecReset == Init /\ [][NextReset]_vars

\* the goroutines are scheduled: the reload handler takes a pending
\* notification, a delayed reset fires when its 50 ms have passed
SpecResetFair == SpecReset /\ WF_vars(ReloadReceive) /\ WF_vars(TimerFire)

\* the port finder alone
NextProbe ==
  \/ ListPorts
  \/ ProbeOpen
  \/ ProbeSetReadTimeout
  \/ ProbeLoop
  \/ ProbeReadError
  \/ ProbeReadNothing
  \/ \E chunk \in ProbeChunks : ProbeReadData(chunk)
  \/ ProbeNext

SpecProbe == Init /\ [][NextProbe]_vars

\* findDeejPort runs to its end: no step of it waits for another task
SpecProbeFair == SpecProbe /\ WF_vars(NextProbe)

\* shortenAppName on every name
SpecShorten == InitShorten /\ [][ShortenCall]_vars

\* a batched LED command on its way from SendAllLEDStates into the device
NextLED == SendAll \/ DeviceRead

SpecLED == InitLED /\ [][NextLED]_vars

\* the process monitor beside the application's Start of the connection
\* and the device
NextMonitor ==
  \/ CallStart("app") \/ StartOpen("app") \/ StartConnected("app")
  \/ MonitorStart \/ MonitorCallStop \/ MonitorStopReceive
  \/ MonitorCheckBegin \/ MonitorCheckSlider \/ MonitorRefresh
  \/ ProcessesChange
  \/ DeviceRead

SpecMonitor == InitMonitor /\ [][NextMonitor]_vars

\* the goroutines that are runnable run: the monitor loop (its tickers keep
\* ticking, and between two ticks it waits in its select, where a pending
\* stop signal is the only case that is ready), the application's Start once
\* it is called, and the device
SpecMonitorFair ==
  /\ SpecMonitor
  /\ SF_vars(MonitorStopReceive)
  /\ WF_vars(MonitorCheckBegin)
  /\ WF_vars(MonitorCheckSlider)
  /\ WF_vars(StartOpen("app") \/ StartConnected("app"))
  /\ WF_vars(DeviceRead)

\* isAnyTargetActive on every target list, active set and mode
SpecActive == InitActive /\ [][ActiveCall]_vars

\* the connection alone: Start and Stop by the application, with reconnects
NextConn == StartStop \/ \E c \in Procs : StartReopen(c)

SpecConn == Init /\ [][NextConn]_vars

\* ------------------------------------------------------------------ claims
\* a step the program can take without new input from its environment (a
\* call, a line from the device, a consumer receiving, a config reload)
ProgramStep ==
  \/ \E c \in Procs : StartOpen(c) \/ StartConnected(c)
  \/ \E c \in Procs : \E l \in Loops : StopRendezvous(c, l)
  \/ \E l \in Loops : CloseConn(l) \/ CloseNil(l) \/ CloseFlag(l) \/ LoopInit(l)
                      \/ ReadFails(l) \/ LoopRecvLine(l) \/ HandleLine(l) \/ ProcessLine(l)
  \/ ReloadReceive \/ ReloadDelay \/ TimerFire
  \/ \E w \in Writers : WriteBegin(w) \/ WriteEnd(w)

\* nothing is left to run: every goroutine waits for its environment
Quiescent == Alive /\ ~ENABLED ProgramStep

\* caller c enters Start / Stop in this step
StartCalled(c) == IF c = "reload" THEN ReloadDelay ELSE CallStart(c)
StopCalled(c) == IF c = "reload" THEN ReloadReceive /\ ParamsChanged ELSE CallStop(c)

ClosePcs == {"close_conn", "close_nil", "close_flag"}

\* C1: at most one port handle opened by this SerialIO is open at any time,
\* for every interleaving of Start, Stop and config-reload reconnects.
AtMostOneOpenHandle == Cardinality(OpenHandles) <= 1

\* C2: a Start called while the connected flag is set returns the
\* connection-already-active error in that step and changes nothing: no handle
\* is opened, and sio.conn, the flag, the recorded port and baud rate and the
\* read loops stay as they were.
StartWhileConnectedRefused ==
  [][\A c \in Procs :
       (StartCalled(c) /\ connected) =>
         /\ result' = "already_active"
         /\ pc'[c] = AfterStart(c)
         /\ UNCHANGED <<conn, connected, comPort, baudRate, handles, loops>>]_vars

\* C2 witness: a Start was refused while a connection is up and its read loop
\* is waiting in the select
StartRefusedWhileConnected ==
  /\ result = "already_active" /\ connected /\ IsOpen(conn)
  /\ \E l \in Loops : loops[l].pc = "select" /\ loops[l].rconn = conn

\* C3: after a Stop called while Connected, the handle is closed, the flag is
\* false and the read loop of that connection terminates. As a final result:
\* once a loop has received a stop signal and run close, the loop has ended.
StoppedLoopTerminates ==
  \A l \in Loops :
    (Alive /\ loops[l].stopped /\ loops[l].pc \notin ClosePcs) => loops[l].pc = "done"

\* no Subscribe call is in progress and every loop that is sending events
\* sends them to the subscribed channels
SubscribersSettled ==
  /\ subscribing = Nil
  /\ \A l \in Loops : loops[l].pc = "deliver" => loops[l].cons = sliderMoveConsumers

\* C4: a Stop called while Connected always returns, whatever the read loop is
\* doing. As a final result: while a Stop waits to hand over its signal (and
\* no Subscribe call is racing the loop), the program still has a step to take.
StopAlwaysReturns ==
  (Alive /\ SubscribersSettled /\ \E c \in Procs : pc[c] = "stop_send")
    => ENABLED ProgramStep

\* C5: whenever close runs, the connection handle is non-nil, so no sequence
\* of Stop calls crashes the process.
CloseNeverOnNil == crashed # "close_nil"

\* C6: a Stop called while the connected flag is clear returns in that step
\* with nothing to stop: it does not go on to the send on the stop channel, and
\* the handle, the flag, the read loops and the tracker state stay as they were.
StopWhileDisconnectedNoop ==
  [][\A c \in Procs :
       (StopCalled(c) /\ ~connected) =>
         /\ result' = "nothing_to_stop"
         /\ pc'[c] = AfterStop(c)
         /\ UNCHANGED <<conn, connected, comPort, baudRate, handles, loops,
                        lastKnownNumSliders, currentSliderPercentValues>>]_vars

\* C6 witness: after a connection was stopped and closed, Stop was called
\* again and found nothing to stop
StopWasNoop ==
  /\ result = "nothing_to_stop" /\ ~connected /\ conn = Nil
  /\ handles # <<>> /\ OpenHandles = {}
  /\ \E l \in Loops : loops[l].stopped /\ loops[l].pc = "select"

\* the reads of handle h have failed and its readLine goroutine has returned
ReadFailedOn(h) ==
  /\ handles[h].failed
  /\ \A l \in Loops : loops[l].pc # "init" /\ loops[l].rconn # h

\* C7: when a read on the open port fails, the read loop terminates and the
\* state returns to Disconnected. As a final result: when nothing is left to
\* run, no handle whose read failed is still open, and the flag is clear if it
\* is the current connection.
ReadErrorDisconnects ==
  Quiescent => \A h \in Handles :
                 ReadFailedOn(h) => ~IsOpen(h) /\ ~(conn = h /\ connected)

\* C8: a write operation called while the connected flag is clear (a step
\* that counts one more call in writesCalled) returns the not-connected error
\* in that step and writes no bytes: the caller does not go on to the mutex,
\* and what the ports have received stays as it was.
WriteWhileDisconnectedRefused ==
  [][(writesCalled' # writesCalled /\ ~connected) =>
       /\ sendResult' = "not_connected"
       /\ UNCHANGED <<written, acked, writers, writeMu>>]_vars

\* C8 witness: a write was refused between the open of the port and the
\* setting of the flag, when the handle is already there
WriteRefusedWhileDisconnected ==
  /\ sendResult = "not_connected" /\ ~connected /\ IsOpen(conn)
  /\ \A h \in Handles : written[h] = <<>>

\* C9: a write never dereferences a nil connection handle, whatever Stop or a
\* reconnect does between the write's connectivity check and its port write.
WriteNeverOnNil == crashed # "write_nil"

RECURSIVE Flatten(_)
Flatten(lines) == IF lines = <<>> THEN <<>> ELSE Head(lines) \o Flatten(Tail(lines))

\* the bytes handle h has received are whole command lines, then possibly the
\* first part of the one line whose write is in progress or was cut by the
\* close of the handle
WholeLinesThenTail(h) ==
  \/ written[h] = Flatten(acked[h])
  \/ \E w \in Writers : /\ writers[w].pc = "write" /\ writers[w].h = h /\ writeMu = w
                        /\ written[h] = Flatten(acked[h]) \o FirstPart(writers[w].cmd)
  \/ /\ ~IsOpen(h)
     /\ \E cmd \in Commands : written[h] = Flatten(acked[h]) \o FirstPart(cmd)

\* C10: the bytes of two command lines are never interleaved on the wire: what
\* a port has received is a concatenation of whole lines, one per successful
\* call and each ending in a newline, whatever the number of concurrent calls.
NoInterleavedWrites ==
  \A h \in Handles :
    /\ WholeLinesThenTail(h)
    /\ \A i \in 1..Len(acked[h]) : acked[h][i] \in Commands /\ HasSuffix(acked[h][i], LF)

\* C10 witness: a writer is in the middle of its line, of which the port has
\* received the first part, while the other writer waits for the mutex
WriterWaitsForMutex ==
  \E w1, w2 \in Writers :
    /\ writers[w1].pc = "write" /\ writers[w2].pc = "lock" /\ IsOpen(writers[w1].h)
    /\ written[writers[w1].h] = FirstPart(writers[w1].cmd)

\* a write operation returns its port's Write error to its caller in this step
WriteErrorReturned ==
  /\ sendResult' = "write_error"
  /\ \E w \in Writers : writers[w].pc # "idle" /\ writers'[w].pc = "idle"

\* C11: a write operation whose port Write fails returns the error to its
\* caller and leaves the connection state as it was: the connected flag, the
\* current handle, the open handles and the read loops are those of before
\* the step.
WriteErrorKeepsConnection ==
  [][WriteErrorReturned => UNCHANGED <<connected, conn, handles, loops>>]_vars

\* C11 witness: a Write has failed on the connected manager, and the flag is
\* set, the handle open and its read loop waiting in the select
WriteFailedStillConnected ==
  /\ sendResult = "write_error" /\ connected /\ IsOpen(conn)
  /\ \E l \in Loops : loops[l].rconn = conn /\ loops[l].pc = "select"

\* caller c's serial.Open returns an error in this step
OpenFails(c) ==
  pc[c] = "start_open" /\ pc'[c] # "start_open" /\ handles' = handles

\* C12: when Start fails to open the port, it returns the error to its caller,
\* the connected flag is clear after it, and no read loop is spawned: the
\* caller does not go on to the part of Start that sets the flag and spawns
\* the loop.
OpenFailureStaysDisconnected ==
  [][\A c \in Procs :
       OpenFails(c) => /\ result' = "open_failed"
                       /\ ~connected'
                       /\ loops' = loops
                       /\ pc'[c] \in {"idle", "wait"}]_vars

\* C12 witness: Start has returned the open error on a manager that never
\* connected: no handle, no loop, flag clear
StartFailedToOpen ==
  /\ result = "open_failed" /\ pc["app"] = "idle"
  /\ ~connected /\ conn = Nil /\ handles = <<>> /\ loops = <<>>

\* lines that are neither button messages nor telemetry frames: a frame that
\* ends in a bare newline, a value of five digits
GarbageLines ==
  { <<"7", "\n">>,
    <<"1", "2", "3", "4", "5", "\r", "\n">> }

\* handleLine returns from a call in this step, having decided on `line`
HandleLineReturns(line) ==
  /\ Len(history') = Len(history) + 1
  /\ history'[Len(history')].kind = "line"
  /\ history'[Len(history')].line = line

\* C13: a line that neither starts with #B nor matches the telemetry pattern
\* is ignored by handleLine: the step in which the call returns emits no move
\* event, triggers no button action, raises no error and leaves the tracked
\* slider count and values as they were; the loop is back at its select.
GarbageLineIgnored ==
  [][\A line \in GarbageLines :
       HandleLineReturns(line) =>
         /\ history'[Len(history')].events = <<>>
         /\ \E l \in Loops : /\ loops[l].pc = "handle" /\ loops[l].line = line
                             /\ loops'[l].pc = "select"
         /\ UNCHANGED <<lastKnownNumSliders, currentSliderPercentValues, media, received,
                        crashed>>]_vars

\* C13 witness: handleLine has returned from a line of garbage that arrived
\* after a frame, and the tracked state is that of the frame
GarbageLineWasIgnored ==
  /\ Len(history) = 2
  /\ history[1].kind = "line" /\ history[1].outcome = "ok" /\ history[1].events # <<>>
  /\ history[2].kind = "line" /\ history[2].line \in GarbageLines
  /\ lastKnownNumSliders = 1 /\ currentSliderPercentValues # <<Unset>>

\* entry k of the history is a telemetry frame: a line of the pattern that
\* is no button message
IsFrame(k) ==
  /\ history[k].kind = "line"
  /\ MatchesExpectedLine(history[k].line)
  /\ ~HasPrefix(history[k].line, ButtonMarker)

\* the raw values of the frame of entry k
RawValues(k) == [i \in 1..Len(SplitLine(history[k].line)) |->
                   Atoi(SplitLine(history[k].line)[i])]

\* C14: a telemetry frame whose first raw value is greater than 1023 has
\* produced zero slider move events, whatever its other values and whatever
\* was tracked before it.
FrameAboveRangeSilent ==
  \A k \in 1..Len(history) :
    (IsFrame(k) /\ RawValues(k)[1] > MaxRaw) => history[k].events = <<>>

\* C14 witness: a frame that starts with 1024 has been handled after a frame
\* of the same length that moved both sliders, and it produced no event though
\* its second value differs from the tracked one
FrameAboveRangeDropped ==
  /\ Len(history) = 2
  /\ IsFrame(1) /\ Len(history[1].events) = 2
  /\ IsFrame(2) /\ RawValues(2) = <<1024, 5>> /\ ~history[2].resized
  /\ currentSliderPercentValues = <<0, 100>>

RECURSIVE LastAccepted(_, _)
\* the last accepted value of slider index i before entry k of the history:
\* the value of the latest move event of that index, unless the tracked state
\* was reset after it
LastAccepted(i, k) ==
  IF k <= 1 THEN Unset
  ELSE LET e == history[k - 1] IN
       IF e.kind = "line" /\ \E n \in 1..Len(e.events) : e.events[n].SliderID = i - 1
       THEN LET n == CHOOSE n \in 1..Len(e.events) : e.events[n].SliderID = i - 1
            IN  e.events[n].PercentValue
       ELSE IF e.kind = "line" /\ e.resized THEN Unset
       ELSE LastAccepted(i, k - 1)

\* the move events of slider index i in entry k
EventsOf(i, k) ==
  {n \in 1..Len(history[k].events) : history[k].events[n].SliderID = i - 1}

\* C15: for each slider index and each accepted frame with unchanged slider
\* count, a move event is emitted exactly when the frame's normalized value
\* differs from the last accepted value of that index by more than the noise
\* threshold, and it carries that value; the tracked value is the last
\* accepted value, so it changes exactly when an event is emitted.
NoiseGateAgainstLastAccepted ==
  /\ \A k \in 1..Len(history) :
       (IsFrame(k) /\ history[k].outcome = "ok" /\ ~history[k].resized) =>
         \A i \in 1..Len(RawValues(k)) :
           LET v == SliderScalar(SplitLine(history[k].line)[i], invertSliders) IN
           /\ Cardinality(EventsOf(i, k)) =
                IF Abs(v - LastAccepted(i, k)) > noiseLevel THEN 1 ELSE 0
           /\ \A n \in EventsOf(i, k) : history[k].events[n].PercentValue = v
  /\ (\A l \in Loops : loops[l].pc # "compute") =>
       \A i \in 1..Len(currentSliderPercentValues) :
         currentSliderPercentValues[i] = LastAccepted(i, Len(history) + 1)

\* C15 witness: a slow drift 0.00, 0.01, 0.02 with threshold 0.01: the second
\* frame is within the threshold and emits nothing, the third is within the
\* threshold of the second but not of the first, and emits
DriftMeasuredAgainstAccepted ==
  /\ Len(history) = 3
  /\ IsFrame(1) /\ history[1].events = <<[SliderID |-> 0, PercentValue |-> 0]>>
  /\ IsFrame(2) /\ history[2].outcome = "ok" /\ history[2].events = <<>>
  /\ IsFrame(3) /\ history[3].events = <<[SliderID |-> 0, PercentValue |-> 2]>>
  /\ currentSliderPercentValues = <<2>>

\* C16: a telemetry frame whose length differs from the tracked slider count
\* yields exactly one move event per slider index.
ResizeEmitsEverySlider ==
  \A k \in 1..Len(history) :
    (IsFrame(k) /\ history[k].resized) =>
      \A i \in 1..Len(RawValues(k)) : Cardinality(EventsOf(i, k)) = 1

\* the channels subscribed before entry k of the history
SubscribedBefore(k) ==
  {history[j].ch : j \in {j \in 1..(k - 1) : history[j].kind = "subscribe"}}

\* C19: every accepted button message is delivered as a ButtonEvent to every
\* current subscriber: once the read loops have handled their lines, a channel
\* subscribed before a button line was handled has received a button event.
ButtonEventsDelivered ==
  (\A l \in Loops : loops[l].pc = "select") =>
    \A k \in 1..Len(history) :
      (history[k].kind = "line" /\ HasPrefix(history[k].line, ButtonMarker)) =>
        \A ch \in SubscribedBefore(k) :
          \E n \in 1..Len(received[ch]) : "ButtonID" \in DOMAIN received[ch][n]

\* C20: in the Stop, settle delay, Start cycle of a config reload, the Start
\* is never refused because the close that Stop triggered has not run yet:
\* when the handler calls Start while a stopped read loop is still inside
\* close, the call goes on to open the port.
ReconnectStartNotRefused ==
  [][(/\ pc["reload"] = "delay" /\ pc'["reload"] # "delay"
      /\ \E l \in Loops : loops[l].stopped /\ loops[l].pc \in ClosePcs)
       => pc'["reload"] = "start_open"]_vars

RECURSIVE EventsFrom(_)
\* the move events accepted from entry k of the history on, in the order of
\* their acceptance
EventsFrom(k) ==
  IF k > Len(history) THEN <<>>
  ELSE (IF history[k].kind = "line" THEN history[k].events ELSE <<>>) \o EventsFrom(k + 1)

RECURSIVE IsSubsequence(_, _)
\* s is t with some elements left out
IsSubsequence(s, t) ==
  IF s = <<>> THEN TRUE
  ELSE IF t = <<>> THEN FALSE
  ELSE IF Head(s) = Head(t) THEN IsSubsequence(Tail(s), Tail(t))
  ELSE IsSubsequence(s, Tail(t))

\* C17: each subscriber receives slider move events in the order they were
\* accepted from the wire: what a channel has received is, in this order, a
\* part of the sequence of all accepted events (lines in the order of their
\* acceptance, the events of a line in ascending slider index).
ReceivedInAcceptanceOrder ==
  /\ \A ch \in 1..Len(received) : IsSubsequence(received[ch], EventsFrom(1))
  /\ \A k \in 1..Len(history) :
       history[k].kind = "line" =>
         \A n \in 1..(Len(history[k].events) - 1) :
           history[k].events[n].SliderID < history[k].events[n + 1].SliderID

\* no read loop is inside handleLine
LinesHandled == \A l \in Loops : loops[l].pc \notin {"handle", "compute", "deliver"}

\* C18: every slider move event accepted while a channel is subscribed is
\* delivered on it exactly once, and all subscribers see the same sequence:
\* once the read loops have left handleLine or cannot go on, a subscribed
\* channel has received the accepted events from some line on, that line being
\* no later than the first one after its subscription.
EveryEventDeliveredOnce ==
  LinesHandled =>
    \A j \in 1..Len(history) :
      history[j].kind = "subscribe" =>
        \E k \in 1..j : received[history[j].ch] = EventsFrom(k)

\* the read-loop goroutines that have not returned
LiveLoops == {l \in Loops : loops[l].pc # "done"}

\* C23: after any sequence of Start, Stop and read errors, the number of live
\* read-loop tasks equals the number of active connections: once nothing is
\* left to run, there is one live loop when the flag is set and none when it
\* is clear.
OneLoopPerConnection ==
  Quiescent => Cardinality(LiveLoops) = IF connected THEN 1 ELSE 0

\* C30: handleLine never indexes the tracked values out of bounds, and when
\* no loop is inside handleLine the tracked values have the length of the
\* tracked count, unless the delayed reset has set the count to 0.
TrackedValuesInBounds ==
  /\ crashed # "index"
  /\ (Alive /\ \A l \in Loops : loops[l].pc # "compute") =>
       lastKnownNumSliders \in {0, Len(currentSliderPercentValues)}

\* C22: the tracked slider count and the tracked values change only in a step
\* of a read loop that is inside handleLine.
TrackerWrittenOnlyByReadLoop ==
  [][<<lastKnownNumSliders, currentSliderPercentValues>>' #
       <<lastKnownNumSliders, currentSliderPercentValues>>
     => \E l \in Loops : /\ loops[l].pc \in {"handle", "compute"}
                         /\ loops'[l].pc # loops[l].pc]_vars

\* the telemetry frames decided on after the reset of entry r
FramesAfter(r) == {k \in (r + 1)..Len(history) : IsFrame(k)}

\* those of them whose handling began after the reset: all but the frames
\* that were past the slider-count update when the reset fired
FramesBegunAfter(r) ==
  {k \in FramesAfter(r) :
     Cardinality({j \in FramesAfter(r) : j < k}) >= history[r].inflight}

\* the first accepted frame of a set of frames: those before it were dropped
\* for their first value
FirstAccepted(frames) ==
  {k \in frames : /\ history[k].outcome = "ok"
                  /\ \A j \in frames : j < k => history[j].outcome # "ok"}

\* entry k has exactly one move event for every slider index of its frame
EmitsEverySlider(k) ==
  \A i \in 1..Len(RawValues(k)) : Cardinality(EventsOf(i, k)) = 1

LineEnds(bytes) == {n \in 1..Len(bytes) : bytes[n] = "\n"}
LineStart(bytes, e) ==
  IF \E m \in LineEnds(bytes) : m < e
  THEN 1 + CHOOSE m \in LineEnds(bytes) :
             m < e /\ \A o \in LineEnds(bytes) : o < e => o <= m
  ELSE 1
CompleteLines(bytes) ==
  {SubSeq(bytes, LineStart(bytes, e), e) : e \in LineEnds(bytes)}

\* how many complete lines of a byte sequence match the telemetry pattern
MatchingLines(bytes) ==
  Cardinality({e \in LineEnds(bytes) :
                 MatchesExpectedLine(SubSeq(bytes, LineStart(bytes, e), e))})

\* probePort has returned after opening and configuring the port
ProbeRan == finder.pc = "returned" /\ finder.why \in {"valid", "deadline", "read"}

RejectedWithOneValidLine ==
  /\ ProbeRan /\ ~finder.ok /\ finder.why = "deadline"
  /\ MatchingLines(finder.fed) = 1

\* C27: findDeejPort probes the enumerated ports in order, one at a time,
\* stops at the first one accepted and returns it, and returns "" when the
\* enumeration fails, the list is empty or every port was rejected; a port
\* that fails to open, to configure or to read is rejected, and no port is
\* open when the next one is probed or when findDeejPort returns.
FirstAcceptedPortReturned ==
  /\ Len(finder.probed) <= Len(finder.ports)
  /\ \A k \in 1..Len(finder.probed) :
       /\ finder.probed[k].port = finder.ports[k]
       /\ finder.probed[k].ok => (k = Len(finder.probed) /\ finder.pc = "done")
       /\ finder.probed[k].why \in {"open", "configure", "read"} => ~finder.probed[k].ok
  /\ finder.pc \notin {"idle", "done"} => finder.i = Len(finder.probed) + 1
  /\ finder.pc = "done" =>
       IF \E k \in 1..Len(finder.probed) : finder.probed[k].ok
       THEN finder.result = finder.ports[Len(finder.probed)]
       ELSE finder.result = "" /\ Len(finder.probed) = Len(finder.ports)
  /\ finder.pc \in {"idle", "open", "returned", "done"} => finder.open = {}
  /\ finder.pc \in {"timeout", "loop", "read"} => finder.open = {ProbedPort}

\* C27 witness: the first port failed on a read, the second was accepted and
\* returned.
SecondPortReturned ==
  /\ finder.pc = "done" /\ finder.result = "COM2"
  /\ Len(finder.probed) = 2 /\ finder.probed[1].why = "read"

\* C27 witness: every port was rejected and "" is returned.
NoPortFound ==
  /\ finder.pc = "done" /\ finder.result = ""
  /\ Len(finder.probed) = 2
  /\ finder.probed[1].why = "open" /\ finder.probed[2].why = "configure"

\* C28: probePort returns for every behaviour of the port: the loop never
\* runs past the deadline by more than one read timeout, a loop that finds
\* the deadline passed rejects the port, and a probe that has entered the
\* loop eventually returns.
ProbeTerminates ==
  /\ [](finder.now < finder.deadline + probeReadTimeout \/ finder.pc \notin {"loop", "read"})
  /\ [](finder.pc = "returned" /\ finder.why = "deadline" =>
          ~finder.ok /\ finder.now >= finder.deadline)
  /\ (finder.pc = "loop" ~> finder.pc = "returned")

\* C28 witness: a port whose reads return zero bytes and no error until the
\* deadline is rejected.
SilentPortRejected ==
  /\ finder.pc = "returned" /\ finder.why = "deadline" /\ ~finder.ok
  /\ finder.fed = <<>>

\* C28 witness: a port that streams garbage until the deadline is rejected.
GarbageStreamRejected ==
  /\ finder.pc = "returned" /\ finder.why = "deadline" /\ ~finder.ok
  /\ finder.reads > MaxChunks /\ OnlyGarbage(finder.fed)


\* C29: however the bytes arrive in reads, the lines extracted are complete
\* lines of the bytes read, in order and each ending at its first line feed;
\* extracted lines plus accumulator are the bytes read; and at the head of the
\* loop every complete line has been extracted.
FramingIndependentOfChunking ==
  /\ Flatten(finder.extracted) \o finder.accumulated = finder.fed
  /\ \A k \in 1..Len(finder.extracted) :
       /\ finder.extracted[k] # <<>>
       /\ IndexLF(finder.extracted[k]) = Len(finder.extracted[k])
  /\ finder.pc \in {"loop", "read"} =>
       /\ LineEnds(finder.accumulated) = {}
       /\ Len(finder.extracted) = Cardinality(LineEnds(finder.fed))

\* C29 witness: a line that arrived in two reads is extracted whole.
LineSplitAcrossReads ==
  /\ finder.pc = "loop" /\ finder.reads = 2
  /\ finder.extracted = << <<"7", "\r", "\n">> >>
  /\ finder.accumulated = <<>>

\* the bytes of a name that are vowels, and those that are not, in order
IsVowel(c) == c \in Vowels
NotVowel(c) == c \notin Vowels
Take(seq, n) == SubSeq(seq, 1, IF Len(seq) < n THEN Len(seq) ELSE n)

\* the label of the rule: the first up to 4 non-vowels, then, when they are
\* fewer than 4, the vowels from the beginning until 4 are reached
RuleLabel(name) ==
  LET c == Take(SelectSeq(name, NotVowel), 4)
  IN  c \o Take(SelectSeq(name, IsVowel), 4 - Len(c))

\* a call of shortenAppName has returned
Shortened == call.fn = "shortenAppName" /\ call.done

LEDCommandParsed ==
  /\ call.fn = "SendAllLEDStates" /\ call.done
  /\ device.attached /\ device.wire = <<>> /\ device.processed = 1

\* C25 as stated: the parsed command reproduces the vector at every index
\* 0..N-1.
LEDRoundTripEveryIndex ==
  LEDCommandParsed =>
    \A i \in 0..(call.numSliders - 1) :
      i < NUM_SLIDERS /\ device.ledStates[i + 1] = call.states[i]

\* C25: the parsed command reproduces the vector at every index below N that
\* the device has (0..NUM_SLIDERS-1), and leaves the LEDs from N on as they
\* were.
LEDRoundTripOnDeviceLEDs ==
  LEDCommandParsed =>
    \A i \in 0..(NUM_SLIDERS - 1) :
      device.ledStates[i + 1] = IF i < call.numSliders THEN call.states[i]
                                ELSE call.before[i + 1]

\* C25 witness: four states, each the opposite of what the LED showed, are
\* reproduced.
FourLEDsReproduced ==
  /\ LEDCommandParsed /\ call.numSliders = 4
  /\ call.states = [i \in 0..3 |-> i \in {0, 2}]
  /\ call.before = [i \in 1..4 |-> i \in {2, 4}]
  /\ device.ledStates = [i \in 1..4 |-> i \in {1, 3}]

\* a value between 0.0 and 1.0, in hundredths
InUnitRange(v) == 0 <= v /\ v <= 100

\* C31: every move event of a frame, and every tracked value that is not the
\* unset value, is between 0.0 and 1.0.
ValuesInUnitRange ==
  /\ \A k \in 1..Len(history) :
       history[k].kind = "line" =>
         \A n \in 1..Len(history[k].events) :
           InUnitRange(history[k].events[n].PercentValue)
  /\ \A i \in 1..Len(currentSliderPercentValues) :
       currentSliderPercentValues[i] = Unset \/ InUnitRange(currentSliderPercentValues[i])

\* loop l holds the line of the last history entry, which was an accepted
\* frame: the same line is handled twice in a row
HandlesLastLineAgain(l) ==
  /\ history # <<>> /\ IsFrame(Len(history))
  /\ history[Len(history)].outcome = "ok"
  /\ loops[l].line = history[Len(history)].line

\* C32: when an accepted frame is handled again right after itself, the
\* second handling emits no move event and leaves the tracked count and
\* values as they are.
SameFrameTwiceIsIdempotent ==
  [][\A l \in Loops :
       (/\ l \in DOMAIN loops' /\ loops[l].pc \in {"handle", "compute"}
        /\ loops'[l].pc # loops[l].pc
        /\ HandlesLastLineAgain(l))
       => /\ UNCHANGED <<lastKnownNumSliders, currentSliderPercentValues>>
          /\ history' # history => history'[Len(history')].events = <<>>]_vars

\* C32 witness: the frame 30 moved the slider, and the same frame after it
\* has been handled with no event.
SecondOccurrenceSilent ==
  /\ Len(history) = 2
  /\ IsFrame(1) /\ history[1].line = <<"3", "0", "\r", "\n">>
  /\ Len(history[1].events) = 1
  /\ IsFrame(2) /\ history[2].line = history[1].line /\ history[2].outcome = "ok"
  /\ history[2].events = <<>>
  /\ currentSliderPercentValues = <<history[1].events[1].PercentValue>>

\* the reload handler takes a notification in this step
TakesNotification == reloadPending /\ ~reloadPending'

\* the configured port or baud rate differs from what Start recorded last
DiffersFromRecorded == config.port # comPort \/ config.baud # baudRate

SubscribedBeforeLines ==
  /\ subscribing = Nil
  /\ \A j, k \in 1..Len(history) :
       (history[j].kind = "subscribe" /\ history[k].kind = "line") => j < k

\* what the consumer at position j has received of the events of the frame
\* loop record L is delivering: all of them before the position of the send,
\* those before the event of the send at that position, none after it
PartDelivered(L, j) ==
  IF j < L.ci THEN L.events
  ELSE IF j = L.ci THEN SubSeq(L.events, 1, L.ei - 1)
  ELSE <<>>

\* C34: while the read loop waits to send an event of a frame, the consumers
\* before the one it waits for (in subscription order) have received all
\* events of the frame, that one has received those before the pending event,
\* the later ones none; the frame is the last line handled; and the tracked
\* values already hold the values of all its events.
DeliveryBlocksInOrder ==
  SubscribedBeforeLines =>
    \A l \in Loops :
      loops[l].pc = "deliver" =>
        LET L == loops[l]
            all == EventsFrom(1)
            prior == SubSeq(all, 1, Len(all) - Len(L.events))
        IN  /\ L.cons = sliderMoveConsumers
            /\ L.ci \in 1..Len(L.cons) /\ L.ei \in 1..Len(L.events)
            /\ \A j \in 1..Len(L.cons) :
                 received[L.cons[j]] = prior \o PartDelivered(L, j)
            /\ L.line = <<>>
            /\ history[Len(history)].kind = "line"
            /\ history[Len(history)].events = L.events
            /\ \A n \in 1..Len(L.events) :
                 currentSliderPercentValues[L.events[n].SliderID + 1] =
                   L.events[n].PercentValue

\* C34 witness: of a frame with two events the first consumer has received
\* both, the second consumer the first one, and the loop waits to send it the
\* second.
SecondConsumerMidFrame ==
  /\ SubscribedBeforeLines /\ Len(sliderMoveConsumers) = 2
  /\ \E l \in Loops :
       /\ loops[l].pc = "deliver" /\ Len(loops[l].events) = 2
       /\ loops[l].ci = 2 /\ loops[l].ei = 2
       /\ received[sliderMoveConsumers[1]] = loops[l].events
       /\ received[sliderMoveConsumers[2]] = <<loops[l].events[1]>>

\* the line loop l is handling is a telemetry frame whose first raw value is
\* above 1023
HandlesFrameAboveRange(l) ==
  /\ loops[l].pc \in {"handle", "compute"}
  /\ MatchesExpectedLine(loops[l].line)
  /\ Atoi(SplitLine(loops[l].line)[1]) > MaxRaw

\* C35: no step of handleLine on a frame whose first raw value is above 1023
\* changes the tracked slider count or a tracked value.
DiscardedFrameKeepsTracker ==
  [][\A l \in Loops :
       (HandlesFrameAboveRange(l) /\ l \in DOMAIN loops' /\ loops'[l].pc # loops[l].pc)
       => UNCHANGED <<lastKnownNumSliders, currentSliderPercentValues>>]_vars

\* the read loops that are inside handleLine
InHandleLine == {l \in Loops : loops[l].pc \in {"handle", "compute", "deliver", "blocked"}}

\* C36: a read loop that Stop has signalled, and that has closed its
\* connection, handles no line afterwards, and no two read loops are inside
\* handleLine at once.
NoLineAfterStop ==
  /\ \A l \in InHandleLine : ~loops[l].stopped
  /\ Cardinality(InHandleLine) <= 1

\* the text of a button line after its marker, the line ending removed
ButtonPayload(line) ==
  LET n == Len(line)
      body == IF n >= 2 /\ line[n - 1] = "\r" /\ line[n] = "\n" THEN SubSeq(line, 1, n - 2)
              ELSE IF n >= 1 /\ line[n] = "\n" THEN SubSeq(line, 1, n - 1)
              ELSE line
  IN  SubSeq(body, 3, Len(body))

\* the media actions the documented payloads stand for
DocumentedMedia(payload) ==
  IF payload = <<"0">> THEN <<"PlayPause">>
  ELSE IF payload = <<"1">> THEN <<"PrevTrack">>
  ELSE IF payload = <<"2">> THEN <<"NextTrack">>
  ELSE <<>>

\* read loop l handles a button line in this step
HandlesButtonLine(l) ==
  /\ loops[l].pc = "handle"
  /\ loops'[l].pc # "handle"
  /\ HasPrefix(loops[l].line, ButtonMarker)

\* C37: handling a line that starts with #B triggers exactly one media action
\* when its payload is "0", "1" or "2" (play/pause, previous, next) and none
\* for any other payload; it emits no slider move event and leaves the tracked
\* slider count and values as they were.
ButtonLineOnlyMedia ==
  [][\A l \in Loops : HandlesButtonLine(l) =>
        /\ media' = media \o DocumentedMedia(ButtonPayload(loops[l].line))
        /\ loops'[l].pc = "select"
        /\ received' = received
        /\ lastKnownNumSliders' = lastKnownNumSliders
        /\ currentSliderPercentValues' = currentSliderPercentValues]_vars

\* button lines handled after a frame: one with an LF ending that triggered
\* its action, one with an unknown payload and one with an empty payload
ButtonsHandledAfterFrame ==
  /\ lastKnownNumSliders > 0
  /\ media = <<"PrevTrack">>
  /\ \E i, j \in 1..Len(history) :
        /\ history[i].kind = "line" /\ history[i].outcome = "button"
        /\ history[i].line = <<"#", "B", "1", "\n">>
        /\ history[j].kind = "line" /\ history[j].outcome = "button"
        /\ ButtonPayload(history[j].line) \notin {<<"0">>, <<"1">>, <<"2">>}

\* a target that counts as active: not one of the skipped special targets, and
\* either an active process or, in process mode, a special session
TargetIsActive(target, activeProcesses, audioMode) ==
  LET lower == ToLower(target) IN
  /\ lower \notin {specialTargetAllUnmapped, specialTargetCurrentWindow}
  /\ \/ lower \in activeProcesses
     \/ ~audioMode /\ lower \in {masterSessionName, inputSessionName, systemSessionName}

\* C40: isAnyTargetActive returns true exactly when at least one target of the
\* list is active, the special unmapped and current-window targets being
\* skipped, whatever the order of the targets.
ActiveIffSomeTargetActive ==
  (call.fn = "isAnyTargetActive" /\ call.done) =>
    (call.out <=> \E i \in 1..Len(call.targets) :
                    TargetIsActive(call.targets[i], call.activeProcesses, call.audioMode))

\* slider i has the LED state v recorded by checkProcesses
Recorded(i, v) == i \in DOMAIN monitor.lastKnownStates /\ monitor.lastKnownStates[i] = v

\* C38: with the periodic refresh disabled and the monitor running, an LED
\* state that checkProcesses has recorded for a slider reaches the device once
\* the connection is up, unless a newer state replaces it.
DetectedStateReachesDevice ==
  \A i \in 0..(Len(SliderMapping) - 1) : \A v \in BOOLEAN :
    (connected /\ monitor.refreshInterval = 0 /\ Recorded(i, v))
      ~> (device.ledStates[i + 1] = v \/ ~Recorded(i, v) \/ monitor.pc = "stopped")

\* C39: every call of ProcessMonitor.Stop returns, and once a call has returned
\* the monitor loop has terminated.
MonitorStopReturns ==
  /\ (monitor.stop = "sending") ~> (monitor.stop = "idle")
  /\ [](monitor.returned > 0 => monitor.pc = "stopped")
====
